---- MODULE Spec2Model ----
(***************************************************************************)
(* Model of run_experiment.py: the iframe tracker, the request attribution *)
(* pass, the per-iframe aggregation buffer and the FileWriterQueue of the  *)
(* Mellowtel network analysis tool.                                        *)
(*                                                                         *)
(* The monitor thread is modelled by a program counter (pc) that walks     *)
(* through run_experiment, visit_site and _process_site_after_navigation;  *)
(* each method that changes state is one action.  The worker thread of     *)
(* FileWriterQueue and the interception layer (which appends to            *)
(* driver.requests at any time) run interleaved with it.                   *)
(***************************************************************************)
EXTENDS Integers, Sequences, FiniteSets, TLC

(***************************************************************************)
(* Bounds of the model.                                                    *)
(***************************************************************************)
\* the maximum wait of the monitoring loop, in seconds (300 in the program)
MaxWait == 3
\* Spec and SpecInterrupt, a whole run: the sites of sites.txt
MaxVisits == 2
\* Spec and SpecInterrupt: requests intercepted during the run
RunReq == 1
\* Spec and SpecInterrupt: times an iframe appears in the DOM during the run
RunShown == 1
\* SpecInterrupt: failed navigations and driver restarts
RunNavFaults == 1
\* SpecVisit, one visit: requests intercepted
VisitReq == 2
\* SpecVisit: times an iframe appears in the DOM
VisitShown == 2
\* SpecFaulty, one visit with faults inside the passes: requests intercepted
FaultyReq == 2
\* SpecFaulty: times an iframe appears in the DOM
FaultyShown == 1
\* SpecFaulty: faults the interception layer raises inside attribution passes
MaxFaults == 1
\* SpecQ, a FileWriterQueue driven on its own: tasks enqueued
MaxTasks == 4
\* SpecQ: write tasks that fail
MaxWriteFaults == 1
\* SpecDomFault, one visit: faults of the driver (DOM query, navigation)
MaxDriverFaults == 1
\* SpecActivation, a whole run: failed activations of the extension
MaxActFaults == 1
\* SpecPayload, a whole run: POST requests and other header spellings recorded
PayloadReq == 2
\* SpecPayload: times an iframe appears in the DOM
PayloadShown == 1
\* SpecRunFaults, a whole run with short visits: the maximum wait of a visit
ShortWait == 1
\* SpecDwell, the fallback dwell loop on its own: the largest DWELL_TIME
MaxDwell == 8
\* SpecDwell: the largest poll interval
MaxInterval == 3
\* SpecRetry, one visit: failed navigations and driver restarts
RetryFaults == 3
\* SpecTracker, one visit with a longer monitoring window: its maximum wait
TrackWait == 5
\* SpecTracker: times an iframe appears in the DOM
TrackShown == 2
\* SpecTracker: times an iframe element shows other id attributes
TrackRelabel == 1

(***************************************************************************)
(* Program constants.                                                      *)
(***************************************************************************)
iframe_poll_interval == 2
max_timeout_retries == 2
\* visit_site: max_retries of the navigation
max_retries == 3


(***************************************************************************)
(* URLs.  A URL is a string; extract_domain is urlparse(url).netloc.lower()*)
(* and is tabulated for the URLs of the model.                             *)
(***************************************************************************)
RelayUrl == "https://request.mellow.tel/r"

\* iframe src values the DOM may show; two of them share a domain
Srcs == {"https://A.example/1", "https://a.example/2", "https://b.example/1"}

extract_domain(url) ==
    CASE url = "https://A.example/1" -> "a.example"
      [] url = "https://a.example/2" -> "a.example"
      [] url = "https://a.example/"  -> "a.example"
      [] url = "https://b.example/1" -> "b.example"
      [] url = "https://b.example/"  -> "b.example"
      [] url = "https://x.example/"  -> "x.example"
      [] url = RelayUrl              -> "request.mellow.tel"
      [] OTHER                       -> ""

\* 'request.mellow.tel' in url
IsRelay(url) == url = RelayUrl

NoHeaders == [h \in {} |-> ""]

Hdr(k, v) == [h \in {k} |-> v]

\* request.body when the request object carries none
NoBody == "<None>"

\* a request of the interception layer: url, method, request headers under
\* the names they were sent with, the value request.headers gives for
\* 'content-type' ("" when the header is absent) and the body
Req(url, method, headers, content_type, body) ==
    [url |-> url, method |-> method, headers |-> headers,
     content_type |-> content_type, body |-> body]

\* the request r as it stands in driver.requests; `at` is history, read by
\* the properties only: the number of the visit during which it was recorded
\* (the time before the first visit counts as part of the first)
Intercepted(r, n) ==
    [url |-> r.url, method |-> r.method, headers |-> r.headers,
     content_type |-> r.content_type, body |-> r.body,
     at |-> IF n = 0 THEN 1 ELSE n]

\* the requests the interception layer may record in every specification
ReqTypes ==
    { Req(RelayUrl, "GET", Hdr("Referer", "https://a.example/"), "", ""),
      Req(RelayUrl, "GET", Hdr("referer", "https://b.example/"), "", ""),
      Req(RelayUrl, "GET", NoHeaders, "", ""),
      Req("https://a.example/", "GET", NoHeaders, "", ""),
      Req("https://x.example/", "GET", NoHeaders, "", "") }

\* further requests, recorded only where a specification allows them: POSTs
\* with and without a body, and a Referer header sent under another spelling
ExtraTypes ==
    { Req(RelayUrl, "POST", NoHeaders, "text/plain", "abc"),
      Req(RelayUrl, "POST", NoHeaders, "text/plain", ""),
      Req(RelayUrl, "POST", NoHeaders, "text/plain", NoBody),
      Req(RelayUrl, "POST", NoHeaders, "Text/HTML", "abc"),
      Req(RelayUrl, "POST", NoHeaders, "application/json", "abc"),
      Req(RelayUrl, "POST", NoHeaders, "", "abc"),
      Req(RelayUrl, "GET", NoHeaders, "text/plain", "abc"),
      Req("https://a.example/", "POST", NoHeaders, "text/plain", "abc"),
      Req(RelayUrl, "GET", Hdr("REFERER", "https://a.example/"), "", "") }

\* the files a caller of FileWriterQueue may name
Files == {"network_logs.jsonl", "other.jsonl"}

output_file == "network_logs.jsonl"

VARIABLES
    pc,                           \* position of the monitor thread
    site,                         \* number of the site being visited (0: none yet)
    timeout_attempt,              \* visit_site: timeout_attempt
    nav_attempt,                  \* visit_site: nav_attempt
    extension_activated,
    dwell,                        \* the fallback dwell loop run on its own:
                                  \* dwell_time, the poll interval, wait_elapsed
    post_payload_counter,         \* counter of the payload files (line 159)
    post_payloads,                \* the files written to post_payloads/, in order
    requests,                     \* driver.requests
    last_processed_request_index,
    mellowtel_iframe_urls,
    mellowtel_domains,
    iframe_metadata,              \* src -> [src, id, data_id, domain, first_seen, last_seen]
    iframe_requests,              \* ordered dict, as a sequence of buckets
    current_visible_iframes,
    currently_visible,            \* local of _process_site_after_navigation
    disappeared_iframes,          \* local: the part of the flush loop still to run
    max_wait_for_iframe,          \* seconds the monitoring loop polls (line 133)
    elapsed,                      \* local: elapsed
    total_iframes_found,          \* local: total_iframes_found
    metadata_file,                \* iframe_metadata.jsonl, one entry per save
    write_queue,                  \* FileWriterQueue.write_queue
    unfinished,                   \* write_queue.unfinished_tasks
    shutdown_event,
    wpc,                          \* position of the worker thread
    files,                        \* content of the files the worker writes
    interrupted,                  \* a KeyboardInterrupt unwound the run
    nsites,                       \* len(sites): the sites of sites.txt
    left,                         \* what the environment may still do in the run:
                                  \* requests to intercept, iframes to show, faults
                                  \* inside passes, failed navigations, failed writes
    \* history variables, read by the properties only
    nclass,                       \* per request: passes of this visit that classified it
    appended,                     \* bucket appends since the last full flush
    handed,                       \* records handed to write tasks by per-iframe flushes
    enq_log,                      \* every task enqueued so far, in order
    handled,                      \* for each dequeued task: was it written
    observed,                     \* iframe srcs found in the DOM during this visit
    ev                            \* the last operation of the monitor thread

vars == << dwell, post_payload_counter, post_payloads, max_wait_for_iframe, extension_activated, nav_attempt, pc, site, timeout_attempt, nsites, requests, last_processed_request_index,
           mellowtel_iframe_urls, mellowtel_domains, iframe_metadata,
           iframe_requests, current_visible_iframes, currently_visible,
           disappeared_iframes, elapsed, total_iframes_found, metadata_file,
           write_queue, unfinished, shutdown_event, wpc, files, interrupted,
           left, nclass, appended, handed, enq_log, handled, observed, ev >>

(***************************************************************************)
(* Helpers on sequences.                                                   *)
(***************************************************************************)
RECURSIVE SumLen(_)
SumLen(bs) == IF bs = << >> THEN 0 ELSE Len(Head(bs).requests) + SumLen(Tail(bs))

Keys(bs) == { bs[k].src : k \in 1..Len(bs) }

Pos(bs, s) == CHOOSE k \in 1..Len(bs) : bs[k].src = s

Bucket(bs, s) == bs[Pos(bs, s)]

Without(bs, s) == SelectSeq(bs, LAMBDA b : b.src # s)

\* the orders in which a Python set may be iterated
Orders(S) == { o \in [1..Cardinality(S) -> S] : \A s \in S : \E k \in DOMAIN o : o[k] = s }

(***************************************************************************)
(* The attribution pass: is_mellowtel_request and process_new_requests.    *)
(***************************************************************************)
\* is_mellowtel_request(request_url)
is_mellowtel_request(request_url) ==
    IF IsRelay(request_url) THEN TRUE
    ELSE IF extract_domain(request_url) = "" THEN FALSE
    ELSE extract_domain(request_url) \in mellowtel_domains

\* request_headers.get('Referer') or request_headers.get('referer');
\* "" stands for a result that is not truthy (None or the empty string)
Get(headers, k) == IF k \in DOMAIN headers THEN headers[k] ELSE ""

RefererOf(headers) ==
    IF Get(headers, "Referer") # "" THEN Get(headers, "Referer") ELSE Get(headers, "referer")

\* extract_request_data plus the visited_site stamp; idx is the position of
\* the request in driver.requests, counted from 1
RequestData(i, site_url) ==
    [idx |-> i, url |-> requests[i].url, visited_site |-> site_url]

\* the create-if-missing and append of lines 949-954, 965-971 and 978-983
AppendTo(bs, s, rec) ==
    IF s \in Keys(bs)
    THEN [bs EXCEPT ![Pos(bs, s)].requests = Append(@, rec)]
    ELSE Append(bs, [src |-> s, domain |-> extract_domain(s), requests |-> << rec >>])

\* a faulty variant of FirstMatch, for sensitivity: the domains are not
\* compared, the first iframe of the iteration is taken
FirstAny(ord, dom) == IF ord # << >> THEN 1 ELSE 0

\* the first iframe of the iteration order whose domain is dom; 0 if none
FirstMatch(ord, dom) ==
    IF \E k \in DOMAIN ord : extract_domain(ord[k]) = dom
    THEN CHOOSE k \in DOMAIN ord :
            /\ extract_domain(ord[k]) = dom
            /\ \A j \in 1..(k - 1) : extract_domain(ord[j]) # dom
    ELSE 0

\* a faulty variant of Broadcast, for sensitivity: only the first visible
\* iframe of the iteration gets the record
BroadcastFirstOnly(st, ord, k, rec) ==
    IF ord = << >> THEN st
    ELSE [buckets |-> AppendTo(st.buckets, ord[1], rec), n |-> st.n + 1]

\* the loop of lines 964-972: one copy of the record for every visible iframe
RECURSIVE Broadcast(_, _, _, _)
Broadcast(st, ord, k, rec) ==
    IF k > Len(ord) THEN st
    ELSE Broadcast([buckets |-> AppendTo(st.buckets, ord[k], rec), n |-> st.n + 1],
                   ord, k + 1, rec)

\* a faulty variant of ToFirstMatch, for sensitivity: the loop has no break,
\* every visible iframe of the domain gets the record
RECURSIVE ToEveryMatchFrom(_, _, _, _, _)
ToEveryMatchFrom(st, ord, k, dom, rec) ==
    IF k > Len(ord) THEN st
    ELSE ToEveryMatchFrom(IF extract_domain(ord[k]) = dom
                          THEN [buckets |-> AppendTo(st.buckets, ord[k], rec), n |-> st.n + 1]
                          ELSE st,
                          ord, k + 1, dom, rec)

ToEveryMatch(st, ord, dom, rec) == ToEveryMatchFrom(st, ord, 1, dom, rec)

\* the loops of lines 945-957 and 975-985: the first match gets the record
ToFirstMatch(st, ord, dom, rec) ==
    IF FirstMatch(ord, dom) = 0 THEN st
    ELSE [buckets |-> AppendTo(st.buckets, ord[FirstMatch(ord, dom)], rec), n |-> st.n + 1]

\* a faulty variant of Classify, for sensitivity: no request is filtered out,
\* every request is given to every visible iframe
ClassifyStoresAll(st, i, ord, site_url) == Broadcast(st, ord, 1, RequestData(i, site_url))

\* lines 926-985 for the request at position i; st = [buckets, n], where n
\* counts the appends made; ord is the iteration order of the visible set
Classify(st, i, ord, site_url) ==
    LET request == requests[i]
        rec     == RequestData(i, site_url)
    IN  IF ~is_mellowtel_request(request.url) THEN st
        ELSE IF IsRelay(request.url)
        THEN IF RefererOf(request.headers) # ""
             THEN ToFirstMatch(st, ord, extract_domain(RefererOf(request.headers)), rec)
             ELSE Broadcast(st, ord, 1, rec)
        ELSE ToFirstMatch(st, ord, extract_domain(request.url), rec)

\* content_type.lower(), tabulated for the content types of the model
Lower(s) == IF s = "Text/HTML" THEN "text/html" ELSE s

\* 'text' in content_type
ContainsText(s) == s \in {"text/plain", "text/html"}

\* save_post_payload(request, site_url); st = [counter, files] is
\* post_payload_counter and the files of post_payloads/
save_post_payload(request, site_url, st) ==
    IF request.method # "POST" \/ ~IsRelay(request.url) THEN st
    ELSE IF ~ContainsText(Lower(request.content_type)) THEN st
    ELSE IF request.body = NoBody THEN st
    ELSE [counter |-> st.counter + 1,
          files   |-> Append(st.files, [counter |-> st.counter + 1,
                                        visited_site |-> site_url,
                                        url |-> request.url,
                                        body |-> request.body])]

\* line 923 over one pass: save_post_payload for every request the pass read
RECURSIVE SavePayloads(_, _, _, _, _)
SavePayloads(i, total, done, st, site_url) ==
    IF i > total THEN st
    ELSE SavePayloads(i + 1, total, done,
                      IF i \in done THEN save_post_payload(requests[i], site_url, st) ELSE st,
                      site_url)

\* What reading driver.requests[i] may do: succeed, raise the RuntimeError
\* "dictionary changed size during iteration" (the index is skipped) or
\* raise anything else (re-raised, the pass ends in the outer handler).
FaultKinds == {"ok", "skip", "abort"}

\* a faulty variant of PassFrom, for sensitivity: the tolerated RuntimeError
\* ends the pass as any other exception does
RECURSIVE PassFromSkipAborts(_, _, _, _, _, _, _)
PassFromSkipAborts(i, total, st, done, f, ord, site_url) ==
    IF i > total THEN [buckets |-> st.buckets, n |-> st.n, done |-> done, aborted |-> FALSE]
    ELSE IF f[i] # "ok"
    THEN [buckets |-> st.buckets, n |-> st.n, done |-> done, aborted |-> TRUE]
    ELSE PassFromSkipAborts(i + 1, total, Classify(st, i, ord, site_url), done \cup {i},
                            f, ord, site_url)

\* the for loop of lines 918-993 from position i on
RECURSIVE PassFrom(_, _, _, _, _, _, _)
PassFrom(i, total, st, done, f, ord, site_url) ==
    IF i > total THEN [buckets |-> st.buckets, n |-> st.n, done |-> done, aborted |-> FALSE]
    ELSE IF f[i] = "abort"
    THEN [buckets |-> st.buckets, n |-> st.n, done |-> done, aborted |-> TRUE]
    ELSE IF f[i] = "skip" THEN PassFrom(i + 1, total, st, done, f, ord, site_url)
    ELSE PassFrom(i + 1, total, Classify(st, i, ord, site_url), done \cup {i}, f, ord, site_url)

NFaults(f) == Cardinality({ k \in DOMAIN f : f[k] # "ok" })

\* the faults of one pass, within what is left of the run's bound
FaultPlans(lo, total) ==
    { f \in [lo..total -> FaultKinds] : NFaults(f) <= left.faults }

\* a faulty variant of IndexAfter, for sensitivity: the length of the list is
\* read again after the loop
IndexAfterReadsAgain(r, total) ==
    IF r.aborted THEN last_processed_request_index ELSE Len(requests')

\* lines 995-996: the index is advanced when the loop ran to its end
IndexAfter(r, total) == IF r.aborted THEN last_processed_request_index ELSE total

\* history: the passes that classified each request, counted up to 2
Bump(c, done) == [k \in DOMAIN c |-> IF k \in done /\ c[k] < 2 THEN c[k] + 1 ELSE c[k]]

\* what the interception layer may append to driver.requests while a pass
\* is running: nothing or one request, within what is left of the run's bounds
Arriving ==
    { [reqs |-> << >>, req |-> 0, extra |-> 0] }
      \cup { [reqs |-> << Intercepted(r, site) >>, req |-> 1, extra |-> 0] :
                r \in IF left.req > 0 THEN ReqTypes ELSE {} }
      \cup { [reqs |-> << Intercepted(r, site) >>, req |-> 0, extra |-> 1] :
                r \in IF left.extra > 0 THEN ExtraTypes ELSE {} }

\* process_new_requests(site_url) run against the visible set `visible`;
\* total is read once, at line 914, before the loop
process_new_requests(visible, nextpc) ==
    LET total == Len(requests)
        lo    == last_processed_request_index + 1
    IN  /\ pc' = nextpc
        /\ IF last_processed_request_index >= total
           THEN /\ UNCHANGED << iframe_requests, last_processed_request_index, nclass, appended,
                                left, post_payload_counter, post_payloads, requests >>
                /\ ev' = [op |-> "process_new_requests", src |-> "", done |-> {},
                          aborted |-> FALSE, faults |-> << >>]
           ELSE \E f \in FaultPlans(lo, total), ord \in Orders(visible), late \in Arriving :
                  LET r == PassFrom(lo, total, [buckets |-> iframe_requests, n |-> 0],
                                    {}, f, ord, site)
                      p == SavePayloads(lo, total, r.done,
                                        [counter |-> post_payload_counter,
                                         files |-> post_payloads], site)
                  IN  /\ iframe_requests' = r.buckets
                      /\ requests' = requests \o late.reqs
                      /\ last_processed_request_index' = IndexAfter(r, total)
                      /\ post_payload_counter' = p.counter
                      /\ post_payloads' = p.files
                      /\ nclass' = Bump(nclass, r.done) \o [k \in 1..Len(late.reqs) |-> 0]
                      /\ appended' = appended + r.n
                      /\ left' = [left EXCEPT !.faults = @ - NFaults(f),
                                              !.req = @ - late.req,
                                              !.extra = @ - late.extra]
                      /\ ev' = [op |-> "process_new_requests", src |-> "", done |-> r.done,
                                aborted |-> r.aborted, faults |-> f]

(***************************************************************************)
(* FileWriterQueue: enqueue_write, _worker and shutdown.                   *)
(***************************************************************************)
\* the None that shutdown() puts on the queue
Sentinel == [filepath |-> "", content |-> << >>, mode |-> "None"]

\* the tuple (filepath, content, mode) of enqueue_write
WriteTask(filepath, content, mode) == [filepath |-> filepath, content |-> content, mode |-> mode]

\* write_queue.put of a sequence of items: each one joins the tail of the
\* queue and counts as an unfinished task
Put(items) ==
    /\ write_queue' = write_queue \o items
    /\ unfinished' = unfinished + Len(items)
    /\ enq_log' = enq_log \o items

\* open(filepath, mode) followed by f.write(content)
WriteFile(old, content, mode) == IF mode = "a" THEN old \o content ELSE content

\* the files after the write tasks items were carried out in order
RECURSIVE WriteTasks(_, _)
WriteTasks(fs, items) ==
    IF items = << >> THEN fs
    ELSE WriteTasks([fs EXCEPT ![Head(items).filepath] =
                        WriteFile(@, Head(items).content, Head(items).mode)],
                    Tail(items))

\* a faulty variant of enqueue_write, for sensitivity: the calling thread
\* writes the file itself and nothing is put on the queue
enqueue_writeDirect(items) ==
    /\ files' = WriteTasks(files, items)
    /\ UNCHANGED << dwell, write_queue, unfinished, enq_log >>

\* file_writer.enqueue_write for each of items (lines 94-96): the tasks are
\* put on the queue, the calling thread touches no file
enqueue_write(items) ==
    /\ Put(items)
    /\ UNCHANGED files

(***************************************************************************)
(* The aggregation buffer: write_iframe_requests and                       *)
(* write_all_remaining_requests.                                           *)
(***************************************************************************)
\* lines 1022-1026: the record with its iframe attribution, as one JSON line
Line(request_data, iframe_url, domain) ==
    [idx |-> request_data.idx, url |-> request_data.url,
     visited_site |-> request_data.visited_site,
     iframe_src |-> iframe_url, iframe_domain |-> domain]

\* a faulty variant of Content, for sensitivity: the newest record comes first
ContentNewestFirst(b) ==
    [k \in 1..Len(b.requests) |-> Line(b.requests[Len(b.requests) + 1 - k], b.src, b.domain)]

\* lines 1019-1029 and 1057-1067: the lines of a bucket, in list order
Content(b) == [k \in 1..Len(b.requests) |-> Line(b.requests[k], b.src, b.domain)]

\* the write tasks that flushing the buckets bs (in order) enqueues
RECURSIVE FlushTasks(_)
FlushTasks(bs) ==
    IF bs = << >> THEN << >>
    ELSE (IF Len(Head(bs).requests) > 0
          THEN << WriteTask(output_file, Content(Head(bs)), "a") >>
          ELSE << >>) \o FlushTasks(Tail(bs))

\* a faulty variant of DeleteBucket, for sensitivity: the bucket is kept
DeleteBucketKeeps(bs, iframe_url) == bs

\* line 1035: del self.iframe_requests[iframe_url]
DeleteBucket(bs, iframe_url) == Without(bs, iframe_url)

\* write_iframe_requests(iframe_url)
write_iframe_requests(iframe_url) ==
    IF iframe_url \notin Keys(iframe_requests)
    THEN UNCHANGED << iframe_requests, write_queue, unfinished, enq_log, handed, files >>
    ELSE /\ enqueue_write(FlushTasks(<< Bucket(iframe_requests, iframe_url) >>))
         /\ handed' = handed + Len(Bucket(iframe_requests, iframe_url).requests)
         /\ iframe_requests' = DeleteBucket(iframe_requests, iframe_url)

\* a faulty variant of ClearBuckets, for sensitivity: nothing is cleared
ClearBucketsKeeps(bs) == bs

\* line 1074: self.iframe_requests.clear()
ClearBuckets(bs) == << >>

\* write_all_remaining_requests()
write_all_remaining_requests ==
    /\ enqueue_write(FlushTasks(iframe_requests))
    /\ iframe_requests' = ClearBuckets(iframe_requests)
    /\ appended' = 0
    /\ handed' = 0

(***************************************************************************)
(* The iframe tracker: update_iframe_metadata and save_iframe_metadata.    *)
(***************************************************************************)
\* the id and data-id attributes an iframe element may carry: the script of
\* lines 712-733 returns an iframe when one of the two contains 'mllwtl'
IframeAttrs == { [id |-> "mllwtl-1", dataId |-> ""], [id |-> "frame", dataId |-> "mllwtl-2"] }

\* the attributes the model shows unless the page relabels the element
DefaultAttrs == [id |-> "mllwtl-1", dataId |-> ""]

\* the dictionaries check_for_mellowtel_iframes returns (lines 725-729) for
\* the iframes snap, whose attributes are attrs
IframeDataList(snap, attrs) ==
    { [src |-> s, id |-> attrs[s].id, dataId |-> attrs[s].dataId] : s \in snap }

\* iframe['src'] for the iframes of the list (line 1253)
SrcsOf(iframe_data_list) == { d.src : d \in iframe_data_list }

DataOf(iframe_data_list, s) == CHOOSE d \in iframe_data_list : d.src = s

\* lines 789-796: the record of an iframe seen for the first time
NewRecord(iframe_data, current_time) ==
    [src |-> iframe_data.src, id |-> iframe_data.id, data_id |-> iframe_data.dataId,
     domain |-> extract_domain(iframe_data.src), first_seen |-> current_time,
     last_seen |-> current_time]

\* a faulty variant of Seen, for sensitivity: a known iframe gets its
\* first_seen overwritten instead of its last_seen
SeenMovesFirst(md, iframe_data, current_time) ==
    IF iframe_data.src \in DOMAIN md
    THEN [md[iframe_data.src] EXCEPT !.first_seen = current_time]
    ELSE NewRecord(iframe_data, current_time)

\* a faulty variant of Seen, for sensitivity: a known iframe gets its id and
\* data_id refreshed from the DOM
SeenRefreshesIds(md, iframe_data, current_time) ==
    IF iframe_data.src \in DOMAIN md
    THEN [md[iframe_data.src] EXCEPT !.last_seen = current_time,
                                      !.id = iframe_data.id,
                                      !.data_id = iframe_data.dataId]
    ELSE NewRecord(iframe_data, current_time)

\* what update_iframe_metadata stores for an iframe seen at current_time
Seen(md, iframe_data, current_time) ==
    IF iframe_data.src \in DOMAIN md
    THEN [md[iframe_data.src] EXCEPT !.last_seen = current_time]
    ELSE NewRecord(iframe_data, current_time)

\* a faulty variant of update_iframe_metadata, for sensitivity: the record of
\* an iframe that is absent from the snapshot is dropped
update_iframe_metadataDropsAbsent(md, iframe_data_list, current_time) ==
    [s \in SrcsOf(iframe_data_list) |->
        Seen(md, DataOf(iframe_data_list, s), current_time)]

\* update_iframe_metadata for every iframe of the snapshot (lines 1249-1250)
update_iframe_metadata(md, iframe_data_list, current_time) ==
    [s \in DOMAIN md \cup SrcsOf(iframe_data_list) |->
        IF s \in SrcsOf(iframe_data_list)
        THEN Seen(md, DataOf(iframe_data_list, s), current_time)
        ELSE md[s]]

\* the record save_iframe_metadata writes for one iframe
IframeRecord(metadata) ==
    [src |-> metadata.src, id |-> metadata.id, data_id |-> metadata.data_id,
     domain |-> metadata.domain, first_seen |-> metadata.first_seen,
     last_seen |-> metadata.last_seen,
     duration_seconds |-> metadata.last_seen - metadata.first_seen]

\* save_iframe_metadata(site_url): what one call appends to the file
save_iframe_metadata(site_url) ==
    metadata_file' = Append(metadata_file,
        [visited_site |-> site_url,
         records |-> [s \in DOMAIN iframe_metadata |-> IframeRecord(iframe_metadata[s])]])

EmptyMeta == [s \in {} |-> 0]

Ev(op, src) == [op |-> op, src |-> src, done |-> {}, aborted |-> FALSE, faults |-> << >>]

(***************************************************************************)
(* FileWriterQueue._worker.                                                *)
(***************************************************************************)
\* a faulty variant of Dequeue, for sensitivity: the newest task is taken
DequeueNewest(q) == [task |-> q[Len(q)], rest |-> SubSeq(q, 1, Len(q) - 1)]

\* write_queue.get(): the task the worker takes, and the queue it leaves
Dequeue(q) == [task |-> Head(q), rest |-> Tail(q)]

\* a faulty variant of AfterWrite, for sensitivity: a failed write ends the
\* worker
AfterWriteStopsOnFailure(ok) == IF ok THEN "run" ELSE "exited"

\* lines 84-88: a failed write is logged and the loop goes on
AfterWrite(ok) == "run"

\* a faulty variant of task_done, for sensitivity: the task is never marked
task_doneForgotten(n) == n

\* line 88: write_queue.task_done()
task_done(n) == n - 1

\* one iteration of the loop of _worker that gets a task: lines 75-88.
\* The write fails (ok = FALSE) when mkdir, open or write raises.
WorkerTask ==
    /\ wpc = "run"
    /\ write_queue # << >>
    /\ LET task == Dequeue(write_queue).task
       IN  /\ write_queue' = Dequeue(write_queue).rest
           /\ IF task = Sentinel
              THEN /\ wpc' = "exited"
                   /\ UNCHANGED << files, unfinished, handled, left >>
              ELSE /\ unfinished' = task_done(unfinished)
                   /\ \E ok \in BOOLEAN :
                        /\ ~ok => left.wfail > 0
                        /\ wpc' = AfterWrite(ok)
                        /\ left' = [left EXCEPT !.wfail = IF ok THEN @ ELSE @ - 1]
                        /\ handled' = Append(handled, ok)
                        /\ files' = IF ok
                                    THEN [files EXCEPT ![task.filepath] =
                                            WriteFile(@, task.content, task.mode)]
                                    ELSE files
    /\ UNCHANGED << dwell, post_payload_counter, post_payloads, max_wait_for_iframe, extension_activated, nav_attempt, pc, site, timeout_attempt, nsites, requests,
                    last_processed_request_index, mellowtel_iframe_urls,
                    mellowtel_domains, iframe_metadata, iframe_requests,
                    current_visible_iframes, currently_visible, disappeared_iframes,
                    elapsed, total_iframes_found, metadata_file, shutdown_event,
                    interrupted, nclass, appended, handed, enq_log, observed, ev >>

\* the loop of _worker ends: the event is set and the queue is empty (line 73)
WorkerExit ==
    /\ wpc = "run"
    /\ shutdown_event
    /\ write_queue = << >>
    /\ wpc' = "exited"
    /\ UNCHANGED << dwell, post_payload_counter, post_payloads, max_wait_for_iframe, extension_activated, nav_attempt, pc, site, timeout_attempt, nsites, requests,
                    last_processed_request_index, mellowtel_iframe_urls,
                    mellowtel_domains, iframe_metadata, iframe_requests,
                    current_visible_iframes, currently_visible, disappeared_iframes,
                    elapsed, total_iframes_found, metadata_file, write_queue,
                    unfinished, shutdown_event, files, interrupted, left, nclass,
                    appended, handed, enq_log, handled, observed, ev >>

(***************************************************************************)
(* The interception layer: a request is recorded in driver.requests.       *)
(***************************************************************************)
MonitorPcs == {"loop", "prepass", "flush", "tickpass", "sleep", "dwell", "final",
               "writeall", "savemeta"}

DriverPcs == MonitorPcs \cup {"start", "attempt", "nav", "be_pass", "be_write", "be_save"}

Arrive ==
    /\ pc \in DriverPcs
    /\ \/ /\ left.req > 0
          /\ \E r \in ReqTypes : requests' = Append(requests, Intercepted(r, site))
          /\ left' = [left EXCEPT !.req = @ - 1]
       \/ /\ left.extra > 0
          /\ \E r \in ExtraTypes : requests' = Append(requests, Intercepted(r, site))
          /\ left' = [left EXCEPT !.extra = @ - 1]
    /\ nclass' = Append(nclass, 0)
    /\ UNCHANGED << dwell, post_payload_counter, post_payloads, max_wait_for_iframe, extension_activated, nav_attempt, pc, site, timeout_attempt, nsites, last_processed_request_index,
                    mellowtel_iframe_urls, mellowtel_domains, iframe_metadata,
                    iframe_requests, current_visible_iframes, currently_visible,
                    disappeared_iframes, elapsed, total_iframes_found, metadata_file,
                    write_queue, unfinished, shutdown_event, wpc, files, interrupted,
                    appended, handed, enq_log, handled, observed, ev >>

(***************************************************************************)
(* run_experiment and visit_site.                                          *)
(***************************************************************************)
\* the for loop of run_experiment calls visit_site for the next site
RunNext ==
    /\ pc = "start"
    /\ site < nsites
    /\ site' = site + 1
    /\ timeout_attempt' = 0
    /\ pc' = "attempt"
    /\ nclass' = [k \in DOMAIN nclass |-> 0]
    /\ observed' = {}
    /\ ev' = Ev("visit_site", "")
    /\ UNCHANGED << dwell, post_payload_counter, post_payloads, max_wait_for_iframe, extension_activated, nav_attempt, nsites, requests, last_processed_request_index,
                    mellowtel_iframe_urls, mellowtel_domains, iframe_metadata,
                    iframe_requests, current_visible_iframes, currently_visible,
                    disappeared_iframes, elapsed, total_iframes_found, metadata_file,
                    write_queue, unfinished, shutdown_event, wpc, files, interrupted,
                    left, appended, handed, enq_log, handled >>

\* the for loop ends (no site is left, or 55 minutes have passed): finally
RunEnd ==
    /\ pc = "start"
    /\ site >= 1
    /\ pc' = "shutdown"
    /\ ev' = Ev("finally", "")
    /\ UNCHANGED << dwell, post_payload_counter, post_payloads, max_wait_for_iframe, extension_activated, nav_attempt, site, timeout_attempt, nsites, requests,
                    last_processed_request_index, mellowtel_iframe_urls,
                    mellowtel_domains, iframe_metadata, iframe_requests,
                    current_visible_iframes, currently_visible, disappeared_iframes,
                    elapsed, total_iframes_found, metadata_file, write_queue,
                    unfinished, shutdown_event, wpc, files, interrupted, left, nclass,
                    appended, handed, enq_log, handled, observed >>

\* lines 1150-1155: the session state is cleared
ClearSession ==
    /\ mellowtel_iframe_urls' = {}
    /\ mellowtel_domains' = {}
    /\ iframe_metadata' = EmptyMeta
    /\ iframe_requests' = << >>
    /\ current_visible_iframes' = {}
    /\ last_processed_request_index' = 0

\* one attempt of visit_site up to the navigation: lines 1124-1155.
\* reinit:  reinitialize_driver succeeded (it runs on a retry only);
\* cleared: del self.driver.requests emptied the request list (it did not stop
\*          on the tolerated RuntimeError);
\* raised:  del self.driver.requests raised an exception other than
\*          RuntimeError: lines 1150-1155 are skipped and the handler of
\*          lines 1210-1219 runs on the session state as it was left
Reset ==
    /\ pc = "attempt"
    /\ \E reinit \in BOOLEAN, cleared \in BOOLEAN, raised \in BOOLEAN, exits \in BOOLEAN :
         /\ timeout_attempt = 0 => reinit
         /\ (~reinit \/ raised) => left.nav > 0
         /\ raised => reinit
         /\ exits => /\ timeout_attempt > 0
                     /\ extension_activated
                     /\ left.act > 0
                     /\ reinit /\ cleared /\ ~raised
         /\ left' = [left EXCEPT !.nav = IF reinit /\ ~raised THEN @ ELSE @ - 1,
                                 !.act = IF exits THEN @ - 1 ELSE @]
         /\ ev' = IF exits THEN Ev("sys.exit", "reinitialize_driver") ELSE Ev("reset", "")
         /\ IF exits
            THEN /\ pc' = "shutdown"
                 /\ UNCHANGED << timeout_attempt, requests, last_processed_request_index,
                                 mellowtel_iframe_urls, mellowtel_domains, iframe_metadata,
                                 iframe_requests, current_visible_iframes, nclass >>
            ELSE IF ~reinit
            THEN /\ IF timeout_attempt < max_timeout_retries
                    THEN /\ timeout_attempt' = timeout_attempt + 1
                         /\ pc' = "attempt"
                    ELSE /\ timeout_attempt' = timeout_attempt
                         /\ pc' = "start"
                 /\ UNCHANGED << requests, last_processed_request_index,
                                 mellowtel_iframe_urls, mellowtel_domains, iframe_metadata,
                                 iframe_requests, current_visible_iframes, nclass >>
            ELSE /\ requests' = IF cleared \/ timeout_attempt > 0 THEN << >> ELSE requests
                 /\ nclass' = IF cleared \/ timeout_attempt > 0 THEN << >> ELSE nclass
                 /\ timeout_attempt' = timeout_attempt
                 /\ IF raised
                    THEN /\ pc' = "be_pass"
                         /\ UNCHANGED << last_processed_request_index,
                                         mellowtel_iframe_urls, mellowtel_domains,
                                         iframe_metadata, iframe_requests,
                                         current_visible_iframes >>
                    ELSE /\ ClearSession
                         /\ pc' = "nav"
    /\ nav_attempt' = 0
    /\ UNCHANGED << dwell, post_payload_counter, post_payloads, max_wait_for_iframe, extension_activated, site, nsites, currently_visible, disappeared_iframes, elapsed,
                    total_iframes_found, metadata_file, write_queue, unfinished,
                    shutdown_event, wpc, files, interrupted, appended, handed, enq_log,
                    handled, observed >>

\* a faulty variant of retry_navigation, for sensitivity: the transient fault
\* is retried without a bound
retry_navigationAlways(attempt) == TRUE

\* line 1172: the transient fault is retried while nav_attempt < max_retries - 1
retry_navigation(attempt) == attempt < max_retries - 1

\* a faulty variant of retry_visit, for sensitivity: a timeout is retried
\* once more than max_timeout_retries allows
retry_visitOnceMore(attempt) == attempt < max_timeout_retries + 1

\* line 1198: a timeout is retried while timeout_attempt < max_timeout_retries
retry_visit(attempt) == attempt < max_timeout_retries

\* one call of self.driver.get(url) in the loop of lines 1157-1187, with the
\* handlers of lines 1196-1219; on success _process_site_after_navigation
\* starts and activates the extension once (lines 1228-1231).  transient:
\* the RuntimeError "dictionary changed size during iteration"; timeout:
\* TimeoutException; error: any other exception; exit: the navigation
\* succeeded and activate_extension called sys.exit(1)
Navigate ==
    /\ pc = "nav"
    /\ \E outcome \in {"ok", "exit", "transient", "timeout", "error"} :
         /\ outcome \notin {"ok", "exit"} => left.nav > 0
         /\ outcome = "exit" => ~extension_activated /\ left.act > 0
         /\ left' = [left EXCEPT !.nav = IF outcome \in {"ok", "exit"} THEN @ ELSE @ - 1,
                                 !.act = IF outcome = "exit" THEN @ - 1 ELSE @]
         /\ IF outcome = "exit"
            THEN /\ pc' = "shutdown"
                 /\ UNCHANGED << elapsed, total_iframes_found, currently_visible,
                                 disappeared_iframes, timeout_attempt, nav_attempt,
                                 extension_activated >>
            ELSE IF outcome = "ok"
            THEN /\ pc' = "loop"
                 /\ extension_activated' = TRUE
                 /\ elapsed' = 0
                 /\ total_iframes_found' = 0
                 /\ currently_visible' = {}
                 /\ disappeared_iframes' = {}
                 /\ UNCHANGED << timeout_attempt, nav_attempt >>
            ELSE /\ IF outcome = "transient" /\ retry_navigation(nav_attempt)
                    THEN /\ nav_attempt' = nav_attempt + 1
                         /\ pc' = "nav"
                         /\ timeout_attempt' = timeout_attempt
                    ELSE IF outcome = "timeout" /\ retry_visit(timeout_attempt)
                    THEN /\ timeout_attempt' = timeout_attempt + 1
                         /\ pc' = "attempt"
                         /\ nav_attempt' = nav_attempt
                    ELSE /\ pc' = "be_pass"
                         /\ UNCHANGED << timeout_attempt, nav_attempt >>
                 /\ UNCHANGED << elapsed, total_iframes_found, currently_visible,
                                 disappeared_iframes, extension_activated >>
         /\ ev' = IF outcome = "exit" THEN Ev("sys.exit", "activate_extension")
                  ELSE Ev("navigate", outcome)
    /\ UNCHANGED << dwell, post_payload_counter, post_payloads, max_wait_for_iframe, site, nsites, requests, last_processed_request_index,
                    mellowtel_iframe_urls, mellowtel_domains, iframe_metadata,
                    iframe_requests, current_visible_iframes, metadata_file,
                    write_queue, unfinished, shutdown_event, wpc, files, interrupted,
                    nclass, appended, handed, enq_log, handled, observed >>

(***************************************************************************)
(* _process_site_after_navigation: the monitoring loop.                    *)
(***************************************************************************)
\* the iframes of a snapshot whose element carries other attributes than the
\* default ones
Relabelled(attrs) == { s \in DOMAIN attrs : attrs[s] # DefaultAttrs }

\* a faulty variant of NewDomains, for sensitivity: of the new iframes of a
\* tick only one has its domain tracked
NewDomainsOfOne(new_iframes) ==
    IF new_iframes = {} THEN {}
    ELSE { extract_domain(CHOOSE u \in new_iframes : TRUE) }

\* lines 1259-1268: the domains of the new iframes are tracked
NewDomains(new_iframes) ==
    { extract_domain(u) : u \in { v \in new_iframes : extract_domain(v) # "" } }

\* a faulty variant of AfterSnapshot, for sensitivity: the disappearance of an
\* iframe is not acted on
AfterSnapshotNoFlush(disappeared) == "tickpass"

\* lines 1272-1283: the pass and the flushes of lines 1275-1280 run only when
\* an iframe has disappeared; the pass of the tick follows in either case
AfterSnapshot(disappeared) == IF disappeared # {} THEN "prepass" ELSE "tickpass"

\* a faulty variant of keep_polling, for sensitivity: the loop ends once an
\* iframe was found
keep_pollingUntilFound(elapsed_now, found, wait) == elapsed_now < wait /\ found = 0

\* line 1240: while elapsed < self.max_wait_for_iframe
keep_polling(elapsed_now, found, wait) == elapsed_now < wait

\* lines 707-745: the list the script returns, or the empty list when
\* execute_script raised (any Exception is caught at line 743)
check_for_mellowtel_iframes(dom_list, raised) == IF raised THEN {} ELSE dom_list

\* lines 1240-1273: the DOM snapshot, the metadata update and the two diffs.
\* dom holds the iframes of the page, snap the src of every iframe that
\* check_for_mellowtel_iframes returned; when the query raises, the page is
\* taken to hold the iframes it held at the tick before.
Snapshot ==
    /\ pc = "loop"
    /\ keep_polling(elapsed, total_iframes_found, max_wait_for_iframe)
    /\ \E dom \in SUBSET Srcs : \E attrs \in [dom -> IframeAttrs] : \E raised \in BOOLEAN :
         LET snap == SrcsOf(check_for_mellowtel_iframes(IframeDataList(dom, attrs), raised))
         IN  /\ raised => /\ left.dom > 0
                          /\ dom = current_visible_iframes
                          /\ Relabelled(attrs) = {}
             /\ Cardinality(snap \ current_visible_iframes) <= left.shown
             /\ Cardinality(Relabelled(attrs)) <= left.relabel
             /\ left' = [left EXCEPT !.shown = @ - Cardinality(snap \ current_visible_iframes),
                                     !.relabel = @ - Cardinality(Relabelled(attrs)),
                                     !.dom = IF raised THEN @ - 1 ELSE @]
             /\ iframe_metadata' = update_iframe_metadata(iframe_metadata,
                                        check_for_mellowtel_iframes(IframeDataList(dom, attrs),
                                                                    raised),
                                        elapsed)
             /\ currently_visible' = snap
             /\ observed' = observed \cup snap
             /\ mellowtel_iframe_urls' = mellowtel_iframe_urls \cup snap
             /\ mellowtel_domains' = mellowtel_domains \cup NewDomains(snap \ mellowtel_iframe_urls)
             /\ total_iframes_found' = IF snap \ mellowtel_iframe_urls # {}
                                       THEN Cardinality(mellowtel_iframe_urls \cup snap)
                                       ELSE total_iframes_found
             /\ disappeared_iframes' = current_visible_iframes \ snap
             /\ pc' = AfterSnapshot(current_visible_iframes \ snap)
             /\ ev' = Ev("snapshot", IF raised THEN "fault" ELSE "")
    /\ UNCHANGED << dwell, post_payload_counter, post_payloads, max_wait_for_iframe, extension_activated, nav_attempt, site, timeout_attempt, nsites, requests,
                    last_processed_request_index, iframe_requests,
                    current_visible_iframes, elapsed, metadata_file, write_queue,
                    unfinished, shutdown_event, wpc, files, interrupted, nclass,
                    appended, handed, enq_log, handled >>

\* line 1275: the pass that precedes the flush of the disappeared iframes
PrePass ==
    /\ pc = "prepass"
    /\ process_new_requests(current_visible_iframes, "flush")
    /\ UNCHANGED << dwell, max_wait_for_iframe, extension_activated, nav_attempt, site, timeout_attempt, nsites, mellowtel_iframe_urls,
                    mellowtel_domains, iframe_metadata, current_visible_iframes,
                    currently_visible, disappeared_iframes, elapsed,
                    total_iframes_found, metadata_file, write_queue, unfinished,
                    shutdown_event, wpc, files, interrupted, handed, enq_log, handled, observed >>

\* lines 1277-1280: one iteration of the loop over disappeared_iframes
Flush ==
    /\ pc = "flush"
    /\ \E iframe_url \in disappeared_iframes :
         /\ write_iframe_requests(iframe_url)
         /\ disappeared_iframes' = disappeared_iframes \ {iframe_url}
         /\ pc' = IF disappeared_iframes = {iframe_url} THEN "tickpass" ELSE "flush"
         /\ ev' = Ev("write_iframe_requests", iframe_url)
    /\ UNCHANGED << dwell, post_payload_counter, post_payloads, max_wait_for_iframe, extension_activated, nav_attempt, site, timeout_attempt, nsites, requests,
                    last_processed_request_index, mellowtel_iframe_urls,
                    mellowtel_domains, iframe_metadata, current_visible_iframes,
                    currently_visible, elapsed, total_iframes_found, metadata_file,
                    shutdown_event, wpc, interrupted, left, nclass, appended,
                    handled, observed >>

\* lines 1283-1286: the visible set is replaced, then the pass of the tick
TickPass ==
    /\ pc = "tickpass"
    /\ current_visible_iframes' = currently_visible
    /\ process_new_requests(currently_visible, "sleep")
    /\ UNCHANGED << dwell, max_wait_for_iframe, extension_activated, nav_attempt, site, timeout_attempt, nsites, mellowtel_iframe_urls,
                    mellowtel_domains, iframe_metadata, currently_visible,
                    disappeared_iframes, elapsed, total_iframes_found, metadata_file,
                    write_queue, unfinished, shutdown_event, wpc, files, interrupted,
                    handed, enq_log, handled, observed >>

\* lines 1289-1295: scroll, sleep, and elapsed is read from the clock again
Sleep ==
    /\ pc = "sleep"
    /\ elapsed' = elapsed + iframe_poll_interval
    /\ pc' = "loop"
    /\ ev' = Ev("sleep", "")
    /\ UNCHANGED << dwell, post_payload_counter, post_payloads, max_wait_for_iframe, extension_activated, nav_attempt, site, timeout_attempt, nsites, requests,
                    last_processed_request_index, mellowtel_iframe_urls,
                    mellowtel_domains, iframe_metadata, iframe_requests,
                    current_visible_iframes, currently_visible, disappeared_iframes,
                    total_iframes_found, metadata_file, write_queue, unfinished,
                    shutdown_event, wpc, files, interrupted, left, nclass, appended,
                    handed, enq_log, handled, observed >>

\* a faulty variant of AfterLoop, for sensitivity: the dwell is always taken
AfterLoopAlwaysDwells(found) == "dwell"

\* lines 1298-1301: the dwell is taken when total_iframes_found is 0
AfterLoop(found) == IF found > 0 THEN "final" ELSE "dwell"

\* lines 1297-1301: the loop ends; the dwell follows when no iframe was found
ExitLoop ==
    /\ pc = "loop"
    /\ ~keep_polling(elapsed, total_iframes_found, max_wait_for_iframe)
    /\ pc' = AfterLoop(total_iframes_found)
    /\ ev' = Ev("exit_loop", "")
    /\ UNCHANGED << dwell, post_payload_counter, post_payloads, max_wait_for_iframe, extension_activated, nav_attempt, site, timeout_attempt, nsites, requests,
                    last_processed_request_index, mellowtel_iframe_urls,
                    mellowtel_domains, iframe_metadata, iframe_requests,
                    current_visible_iframes, currently_visible, disappeared_iframes,
                    elapsed, total_iframes_found, metadata_file, write_queue,
                    unfinished, shutdown_event, wpc, files, interrupted, left, nclass,
                    appended, handed, enq_log, handled, observed >>

\* lines 1304-1314: the fallback dwell
Dwell ==
    /\ pc = "dwell"
    /\ pc' = "final"
    /\ ev' = Ev("dwell", "")
    /\ UNCHANGED << dwell, post_payload_counter, post_payloads, max_wait_for_iframe, extension_activated, nav_attempt, site, timeout_attempt, nsites, requests,
                    last_processed_request_index, mellowtel_iframe_urls,
                    mellowtel_domains, iframe_metadata, iframe_requests,
                    current_visible_iframes, currently_visible, disappeared_iframes,
                    elapsed, total_iframes_found, metadata_file, write_queue,
                    unfinished, shutdown_event, wpc, files, interrupted, left, nclass,
                    appended, handed, enq_log, handled, observed >>

\* lines 1318, 1204 and 1214: the last pass of a visit
FinalPass ==
    /\ pc \in {"final", "be_pass"}
    /\ process_new_requests(current_visible_iframes,
                            IF pc = "final" THEN "writeall" ELSE "be_write")
    /\ UNCHANGED << dwell, max_wait_for_iframe, extension_activated, nav_attempt, site, timeout_attempt, nsites, mellowtel_iframe_urls,
                    mellowtel_domains, iframe_metadata, current_visible_iframes,
                    currently_visible, disappeared_iframes, elapsed,
                    total_iframes_found, metadata_file, write_queue, unfinished,
                    shutdown_event, wpc, files, interrupted, handed, enq_log, handled, observed >>

\* lines 1321, 1205 and 1215
WriteAll ==
    /\ pc \in {"writeall", "be_write"}
    /\ write_all_remaining_requests
    /\ pc' = IF pc = "writeall" THEN "savemeta" ELSE "be_save"
    /\ ev' = Ev("write_all_remaining_requests", "")
    /\ UNCHANGED << dwell, post_payload_counter, post_payloads, max_wait_for_iframe, extension_activated, nav_attempt, site, timeout_attempt, nsites, requests,
                    last_processed_request_index, mellowtel_iframe_urls,
                    mellowtel_domains, iframe_metadata, current_visible_iframes,
                    currently_visible, disappeared_iframes, elapsed,
                    total_iframes_found, metadata_file, shutdown_event, wpc,
                    interrupted, left, nclass, handled, observed >>

\* a faulty variant of AfterAbandon, for sensitivity: the handler raises
\* again and run_experiment ends the run
AfterAbandonRaises == "shutdown"

\* lines 1209 and 1219: after the best-effort steps visit_site returns and
\* run_experiment goes on with the next site
AfterAbandon == "start"

\* lines 1324, 1206 and 1216; visit_site returns
SaveMeta ==
    /\ pc \in {"savemeta", "be_save"}
    /\ save_iframe_metadata(site)
    /\ pc' = IF pc = "savemeta" THEN "start" ELSE AfterAbandon
    /\ ev' = Ev("save_iframe_metadata", IF pc = "savemeta" THEN "monitored" ELSE "abandoned")
    /\ UNCHANGED << dwell, post_payload_counter, post_payloads, max_wait_for_iframe, extension_activated, nav_attempt, site, timeout_attempt, nsites, requests,
                    last_processed_request_index, mellowtel_iframe_urls,
                    mellowtel_domains, iframe_metadata, iframe_requests,
                    current_visible_iframes, currently_visible, disappeared_iframes,
                    elapsed, total_iframes_found, write_queue, unfinished,
                    shutdown_event, wpc, files, interrupted, left, nclass, appended,
                    handed, enq_log, handled, observed >>

\* a KeyboardInterrupt reaches the monitor thread during a visit: no handler
\* of visit_site or _process_site_after_navigation catches it, and
\* run_experiment goes to its finally clause (lines 1449-1456)
Interrupt ==
    /\ pc \in MonitorPcs \cup {"attempt", "nav"}
    /\ left.intr > 0
    /\ left' = [left EXCEPT !.intr = @ - 1]
    /\ pc' = "shutdown"
    /\ interrupted' = TRUE
    /\ ev' = Ev("KeyboardInterrupt", pc)
    /\ UNCHANGED << dwell, post_payload_counter, post_payloads, max_wait_for_iframe, extension_activated, nav_attempt, site, timeout_attempt, nsites, requests,
                    last_processed_request_index, mellowtel_iframe_urls,
                    mellowtel_domains, iframe_metadata, iframe_requests,
                    current_visible_iframes, currently_visible, disappeared_iframes,
                    elapsed, total_iframes_found, metadata_file, write_queue,
                    unfinished, shutdown_event, wpc, files, nclass, appended, handed,
                    enq_log, handled, observed >>

(***************************************************************************)
(* FileWriterQueue.shutdown, called from the finally of run_experiment.    *)
(***************************************************************************)
\* line 104
ShutdownSet ==
    /\ pc = "shutdown"
    /\ shutdown_event' = TRUE
    /\ pc' = "join"
    /\ ev' = Ev("shutdown", "")
    /\ UNCHANGED << dwell, post_payload_counter, post_payloads, max_wait_for_iframe, extension_activated, nav_attempt, site, timeout_attempt, nsites, requests,
                    last_processed_request_index, mellowtel_iframe_urls,
                    mellowtel_domains, iframe_metadata, iframe_requests,
                    current_visible_iframes, currently_visible, disappeared_iframes,
                    elapsed, total_iframes_found, metadata_file, write_queue,
                    unfinished, wpc, files, interrupted, left, nclass, appended, handed,
                    enq_log, handled, observed >>

\* line 108: write_queue.join() returns when no task is unfinished
ShutdownJoin ==
    /\ pc = "join"
    /\ unfinished = 0
    /\ pc' = "sentinel"
    /\ UNCHANGED << dwell, post_payload_counter, post_payloads, max_wait_for_iframe, extension_activated, nav_attempt, site, timeout_attempt, nsites, requests,
                    last_processed_request_index, mellowtel_iframe_urls,
                    mellowtel_domains, iframe_metadata, iframe_requests,
                    current_visible_iframes, currently_visible, disappeared_iframes,
                    elapsed, total_iframes_found, metadata_file, write_queue,
                    unfinished, shutdown_event, wpc, files, interrupted, left, nclass,
                    appended, handed, enq_log, handled, observed, ev >>

\* line 114: write_queue.put(None)
ShutdownSentinel ==
    /\ pc = "sentinel"
    /\ Put(<< Sentinel >>)
    /\ pc' = "threadjoin"
    /\ UNCHANGED << dwell, post_payload_counter, post_payloads, max_wait_for_iframe, extension_activated, nav_attempt, site, timeout_attempt, nsites, requests,
                    last_processed_request_index, mellowtel_iframe_urls,
                    mellowtel_domains, iframe_metadata, iframe_requests,
                    current_visible_iframes, currently_visible, disappeared_iframes,
                    elapsed, total_iframes_found, metadata_file, shutdown_event, wpc,
                    files, interrupted, left, nclass, appended, handed, handled, observed, ev >>

\* lines 117-121: worker_thread.join(timeout) returns when the worker has
\* ended, or when the timeout has passed
ShutdownThreadJoin ==
    /\ pc = "threadjoin"
    /\ pc' = "done"
    /\ ev' = Ev("shutdown_returned", wpc)
    /\ UNCHANGED << dwell, post_payload_counter, post_payloads, max_wait_for_iframe, extension_activated, nav_attempt, site, timeout_attempt, nsites, requests,
                    last_processed_request_index, mellowtel_iframe_urls,
                    mellowtel_domains, iframe_metadata, iframe_requests,
                    current_visible_iframes, currently_visible, disappeared_iframes,
                    elapsed, total_iframes_found, metadata_file, write_queue,
                    unfinished, shutdown_event, wpc, files, interrupted, left, nclass,
                    appended, handed, enq_log, handled, observed >>

(***************************************************************************)
(* The run.                                                                *)
(***************************************************************************)
\* the state after NetworkAnalyzer() and the driver initialization, for a
\* sites.txt of n sites and an environment that may do what `budget` says
InitState(n, budget, wait) ==
    /\ max_wait_for_iframe = wait
    /\ post_payload_counter = 0
    /\ post_payloads = << >>
    /\ nav_attempt = 0
    /\ extension_activated = FALSE
    /\ pc = "start"
    /\ site = 0
    /\ timeout_attempt = 0
    /\ nsites = n
    /\ requests = << >>
    /\ last_processed_request_index = 0
    /\ mellowtel_iframe_urls = {}
    /\ mellowtel_domains = {}
    /\ iframe_metadata = EmptyMeta
    /\ iframe_requests = << >>
    /\ current_visible_iframes = {}
    /\ currently_visible = {}
    /\ disappeared_iframes = {}
    /\ elapsed = 0
    /\ total_iframes_found = 0
    /\ metadata_file = << >>
    /\ write_queue = << >>
    /\ unfinished = 0
    /\ shutdown_event = FALSE
    /\ wpc = "run"
    /\ files = [f \in Files |-> << >>]
    /\ interrupted = FALSE
    /\ left = budget
    /\ nclass = << >>
    /\ appended = 0
    /\ handed = 0
    /\ enq_log = << >>
    /\ handled = << >>
    /\ observed = {}
    /\ ev = Ev("init", "")

\* the dwell loop is not run on its own
NoDwell == [dwell_time |-> 0, interval |-> iframe_poll_interval, wait_elapsed |-> 0,
            sleeps |-> 0, at |-> "idle"]

InitFor(n, budget, wait) == InitState(n, budget, wait) /\ dwell = NoDwell

\* the state after construction with the maximum wait of the model
InitWith(n, budget) == InitFor(n, budget, MaxWait)

\* a whole run over MaxVisits sites in an environment without faults
Init ==
    InitWith(MaxVisits, [req |-> RunReq, shown |-> RunShown, faults |-> 0,
                         nav |-> 0, wfail |-> 0, intr |-> 0, relabel |-> 0, dom |-> 0, act |-> 0, extra |-> 0])

Next ==
    \/ Arrive
    \/ RunNext
    \/ RunEnd
    \/ Reset
    \/ Navigate
    \/ Snapshot
    \/ PrePass
    \/ Flush
    \/ TickPass
    \/ Sleep
    \/ ExitLoop
    \/ Dwell
    \/ FinalPass
    \/ WriteAll
    \/ SaveMeta
    \/ ShutdownSet
    \/ ShutdownJoin
    \/ ShutdownSentinel
    \/ ShutdownThreadJoin
    \/ WorkerTask
    \/ WorkerExit

Spec == Init /\ [][Next]_vars

\* the visit of a single site, with more requests and iframes
InitVisit ==
    InitWith(1, [req |-> VisitReq, shown |-> VisitShown, faults |-> 0,
                 nav |-> 0, wfail |-> 0, intr |-> 0, relabel |-> 0, dom |-> 0, act |-> 0, extra |-> 0])

SpecVisit == InitVisit /\ [][Next]_vars

\* the visit of a single site in which reading driver.requests may raise
InitFaulty ==
    InitWith(1, [req |-> FaultyReq, shown |-> FaultyShown, faults |-> MaxFaults,
                 nav |-> 0, wfail |-> 0, intr |-> 0, relabel |-> 0, dom |-> 0, act |-> 0, extra |-> 0])

SpecFaulty == InitFaulty /\ [][Next]_vars

\* a whole run in which navigations and driver restarts may fail and one
\* KeyboardInterrupt may arrive
InitInterrupt ==
    InitWith(MaxVisits, [req |-> RunReq, shown |-> RunShown, faults |-> 0,
                         nav |-> RunNavFaults, wfail |-> 0, intr |-> 1, relabel |-> 0, dom |-> 0, act |-> 0, extra |-> 0])

NextInterrupt ==
    \/ Next
    \/ Interrupt

SpecInterrupt == InitInterrupt /\ [][NextInterrupt]_vars

(***************************************************************************)
(* A FileWriterQueue driven on its own: callers of enqueue_write name any  *)
(* file, writes may fail, and the owner calls shutdown() at any time.      *)
(***************************************************************************)
\* the tasks enqueued so far, without the None of shutdown()
RealTasks == SelectSeq(enq_log, LAMBDA t : t # Sentinel)

\* enqueue_write(filepath, content, 'a'): the content is one line that
\* numbers the task
EnqueueWrite ==
    /\ Len(RealTasks) < MaxTasks
    /\ \E f \in Files : Put(<< WriteTask(f, << Len(RealTasks) + 1 >>, "a") >>)
    /\ UNCHANGED << dwell, post_payload_counter, post_payloads, max_wait_for_iframe, extension_activated, nav_attempt, pc, site, timeout_attempt, nsites, requests,
                    last_processed_request_index, mellowtel_iframe_urls,
                    mellowtel_domains, iframe_metadata, iframe_requests,
                    current_visible_iframes, currently_visible, disappeared_iframes,
                    elapsed, total_iframes_found, metadata_file, shutdown_event, wpc,
                    files, interrupted, left, nclass, appended, handed, handled, observed, ev >>

\* the owner of the queue calls shutdown()
CallShutdown ==
    /\ pc = "start"
    /\ pc' = "shutdown"
    /\ ev' = Ev("call_shutdown", "")
    /\ UNCHANGED << dwell, post_payload_counter, post_payloads, max_wait_for_iframe, extension_activated, nav_attempt, site, timeout_attempt, nsites, requests,
                    last_processed_request_index, mellowtel_iframe_urls,
                    mellowtel_domains, iframe_metadata, iframe_requests,
                    current_visible_iframes, currently_visible, disappeared_iframes,
                    elapsed, total_iframes_found, metadata_file, write_queue,
                    unfinished, shutdown_event, wpc, files, interrupted, left, nclass,
                    appended, handed, enq_log, handled, observed >>

InitQ ==
    InitWith(0, [req |-> 0, shown |-> 0, faults |-> 0, nav |-> 0,
                 wfail |-> MaxWriteFaults, intr |-> 0, relabel |-> 0, dom |-> 0, act |-> 0, extra |-> 0])

NextQ ==
    \/ EnqueueWrite
    \/ CallShutdown
    \/ ShutdownSet
    \/ ShutdownJoin
    \/ ShutdownSentinel
    \/ ShutdownThreadJoin
    \/ WorkerTask
    \/ WorkerExit

SpecQ == InitQ /\ [][NextQ]_vars

(***************************************************************************)
(* Properties.                                                             *)
(***************************************************************************)
\* the steps that are one call of process_new_requests
PassStep ==
    /\ pc \in {"prepass", "tickpass", "final", "be_pass"}
    /\ pc' # pc
    /\ ev'.op = "process_new_requests"

\* the first reset of a visit: the only step of a visit that may lower the index
VisitStartReset == pc = "attempt" /\ timeout_attempt = 0

\* C1: within one site visit, over any sequence of passes (passes ended by a
\* fault included), last_processed_request_index never decreases and no
\* request index is classified in more than one pass.
C1_IndexMonotoneClassifiedOnce ==
    [][ /\ ~VisitStartReset => last_processed_request_index' >= last_processed_request_index
        /\ \A k \in DOMAIN nclass' : nclass'[k] <= 1 ]_vars

\* C2: in every reachable state the records held by the buckets are as many
\* as the bucket appends since the last full flush, less the records that
\* per-iframe flushes have handed to write tasks.
C2_BufferedCount == SumLen(iframe_requests) = appended - handed

\* a per-iframe flush has handed records over while another bucket still
\* holds some
C2_Witness ==
    /\ handed > 0
    /\ SumLen(iframe_requests) > 0
    /\ appended > handed

\* the step in which write_iframe_requests(s) is called
FlushStep(s) ==
    /\ pc = "flush"
    /\ s \in disappeared_iframes
    /\ disappeared_iframes' = disappeared_iframes \ {s}

\* C3: write_iframe_requests(src) on an existing non-empty bucket removes
\* exactly the key src, leaves every other bucket as it was, and enqueues
\* exactly one write task with one line per buffered record, in the order in
\* which the records were appended.
C3_FlushOneBucket ==
    [][ \A s \in Srcs :
          (/\ FlushStep(s)
           /\ s \in Keys(iframe_requests)
           /\ Len(Bucket(iframe_requests, s).requests) > 0)
          => /\ Keys(iframe_requests') = Keys(iframe_requests) \ {s}
             /\ Len(iframe_requests') = Len(iframe_requests) - 1
             /\ \A t \in Keys(iframe_requests') :
                   Bucket(iframe_requests', t) = Bucket(iframe_requests, t)
             /\ Len(write_queue') = Len(write_queue) + 1
             /\ SubSeq(write_queue', 1, Len(write_queue)) = write_queue
             /\ LET task == write_queue'[Len(write_queue')]
                    b    == Bucket(iframe_requests, s)
                IN  /\ task.filepath = output_file
                    /\ task.mode = "a"
                    /\ Len(task.content) = Len(b.requests)
                    /\ \A k \in 1..Len(b.requests) :
                          /\ task.content[k].idx = b.requests[k].idx
                          /\ task.content[k].url = b.requests[k].url
                          /\ task.content[k].visited_site = b.requests[k].visited_site
                          /\ task.content[k].iframe_src = s
                          /\ task.content[k].iframe_domain = extract_domain(s) ]_vars

\* a bucket of two records has just been flushed, and another bucket remains
C3_Witness ==
    /\ ev.op = "write_iframe_requests"
    /\ ev.src \notin Keys(iframe_requests)
    /\ iframe_requests # << >>
    /\ write_queue # << >>
    /\ LET content == write_queue[Len(write_queue)].content
       IN  /\ Len(content) >= 2
           /\ content[1].iframe_src = ev.src
           /\ content[1].idx < content[2].idx

\* what file f holds when the first k tasks enqueued have been performed in
\* the order in which they were enqueued, a failed task leaving no trace
RECURSIVE WrittenTo(_, _)
WrittenTo(f, k) ==
    IF k = 0 THEN << >>
    ELSE IF handled[k] /\ RealTasks[k].filepath = f
    THEN WrittenTo(f, k - 1) \o RealTasks[k].content
    ELSE WrittenTo(f, k - 1)

\* C4: the worker performs the tasks in the order in which they were
\* enqueued: the content of each file is always the concatenation, in that
\* order, of the contents of the tasks completed for it so far, also when
\* consecutive tasks have the same file.
C4_FilesInEnqueueOrder ==
    /\ Len(handled) <= Len(RealTasks)
    /\ \A f \in Files : files[f] = WrittenTo(f, Len(handled))

\* two tasks have been written to one file and one to the other, and a task
\* has failed
C4_Witness ==
    /\ Len(files["network_logs.jsonl"]) >= 2
    /\ files["other.jsonl"] # << >>
    /\ \E k \in DOMAIN handled : ~handled[k]

\* C5: in the tick whose snapshot first lacks a visible iframe, a pass over
\* all pending requests runs first, against the visible set of the tick
\* before; then the bucket of each such iframe is flushed and deleted, and
\* all of that is done when the tick reaches its own pass.
C5_PassThenFlushInTheTick ==
    [][ /\ (pc = "loop" /\ pc' \in {"prepass", "tickpass"}
               /\ current_visible_iframes \ currently_visible' # {})
           => /\ pc' = "prepass"
              /\ disappeared_iframes' = current_visible_iframes \ currently_visible'
        /\ (pc = "prepass" /\ pc' # "prepass" /\ ~interrupted')
           => /\ pc' = "flush"
              /\ ev'.op = "process_new_requests"
              /\ last_processed_request_index' = Len(requests)
              /\ current_visible_iframes' = current_visible_iframes
              /\ disappeared_iframes' = disappeared_iframes
              /\ disappeared_iframes \subseteq current_visible_iframes
        /\ (pc = "flush" /\ pc' # "flush" /\ ~interrupted') => pc' = "tickpass"
        /\ (pc = "flush" /\ ~interrupted')
           => \A s \in disappeared_iframes \ disappeared_iframes' :
                 /\ s \notin Keys(iframe_requests')
                 /\ s \in Keys(iframe_requests) => Len(enq_log') = Len(enq_log) + 1
        /\ pc' = "tickpass"
           => \A s \in current_visible_iframes' \ currently_visible' :
                 s \notin Keys(iframe_requests') ]_vars

\* the bucket of an iframe that has just disappeared has been handed to a
\* write task, and the pass of the tick is still to come
C5_Witness ==
    /\ pc = "tickpass"
    /\ ev.op = "write_iframe_requests"
    /\ ev.src \in current_visible_iframes \ currently_visible
    /\ enq_log # << >>
    /\ enq_log[Len(enq_log)].content[1].iframe_src = ev.src

\* the buckets that hold a record
NonEmpty(bs) == { k \in 1..Len(bs) : Len(bs[k].requests) > 0 }

C7_InterruptFlushes == (interrupted /\ shutdown_event) => iframe_requests = << >>

\* C8: first_seen <= last_seen for every record of iframe_metadata, and
\* every duration_seconds that save_iframe_metadata writes is >= 0.
C8_SeenInOrder ==
    /\ \A s \in DOMAIN iframe_metadata :
          iframe_metadata[s].first_seen <= iframe_metadata[s].last_seen
    /\ \A k \in DOMAIN metadata_file : \A s \in DOMAIN metadata_file[k].records :
          metadata_file[k].records[s].duration_seconds >= 0

\* an iframe seen in two ticks has been saved with a positive duration
C8_Witness ==
    \E k \in DOMAIN metadata_file : \E s \in DOMAIN metadata_file[k].records :
       /\ metadata_file[k].records[s].duration_seconds > 0
       /\ metadata_file[k].records[s].first_seen < metadata_file[k].records[s].last_seen

\* the records that the step appends to the bucket of s
OldLen(s) ==
    IF s \in Keys(iframe_requests) THEN Len(Bucket(iframe_requests, s).requests) ELSE 0

NewRecords(s) ==
    IF s \in Keys(iframe_requests')
    THEN SubSeq(Bucket(iframe_requests', s).requests, OldLen(s) + 1,
                Len(Bucket(iframe_requests', s).requests))
    ELSE << >>

\* how many of them are the request at position i
CountNew(s, i) == Cardinality({ k \in DOMAIN NewRecords(s) : NewRecords(s)[k].idx = i })

HasReferer(i) == IsRelay(requests[i].url) /\ RefererOf(requests[i].headers) # ""

NoReferer(i) == IsRelay(requests[i].url) /\ RefererOf(requests[i].headers) = ""

\* the visible iframes whose domain is that of the Referer of request i
RefererMatches(i, visible) ==
    { s \in visible : extract_domain(s) = extract_domain(RefererOf(requests[i].headers)) }

\* C9: a pass appends a relay request that carries a Referer to exactly one
\* bucket, that of a visible iframe whose domain is the Referer's, and to
\* no other; when no visible iframe has that domain no bucket is created or
\* changed.
C9_RefererToOneBucket ==
    [][ PassStep =>
          /\ \A i \in ev'.done : HasReferer(i) =>
                IF RefererMatches(i, current_visible_iframes') = {}
                THEN \A s \in Srcs : CountNew(s, i) = 0
                ELSE \E s \in RefererMatches(i, current_visible_iframes') :
                        /\ CountNew(s, i) = 1
                        /\ \A t \in Srcs \ {s} : CountNew(t, i) = 0
          /\ (\A i \in ev'.done :
                 HasReferer(i) /\ RefererMatches(i, current_visible_iframes') = {})
             => iframe_requests' = iframe_requests ]_vars

\* a pass has given a request with a Referer to one of the two visible
\* iframes of the Referer's domain
C9_Witness ==
    /\ ev.op = "process_new_requests"
    /\ pc = "sleep"
    /\ \E i \in ev.done :
          /\ HasReferer(i)
          /\ Cardinality(RefererMatches(i, current_visible_iframes)) = 2
          /\ Cardinality({ b \in 1..Len(iframe_requests) :
                \E k \in 1..Len(iframe_requests[b].requests) :
                   iframe_requests[b].requests[k].idx = i }) = 1

\* C10: a pass appends a relay request without a Referer once to the bucket
\* of every iframe of current_visible_iframes, creating the buckets that
\* are missing, and to no other bucket.
C10_NoRefererToEveryBucket ==
    [][ PassStep =>
          \A i \in ev'.done : NoReferer(i) =>
             /\ \A s \in current_visible_iframes' :
                   s \in Keys(iframe_requests') /\ CountNew(s, i) = 1
             /\ \A s \in Srcs \ current_visible_iframes' : CountNew(s, i) = 0 ]_vars

\* a pass has given a request without a Referer to both visible iframes, one
\* of which had no bucket before
C10_Witness ==
    /\ ev.op = "process_new_requests"
    /\ pc = "sleep"
    /\ Cardinality(current_visible_iframes) = 2
    /\ \E i \in ev.done :
          /\ NoReferer(i)
          /\ \A s \in current_visible_iframes :
                /\ s \in Keys(iframe_requests)
                /\ \E k \in 1..Len(Bucket(iframe_requests, s).requests) :
                      Bucket(iframe_requests, s).requests[k].idx = i
    /\ \E s \in current_visible_iframes : Len(Bucket(iframe_requests, s).requests) = 2
    /\ \E s \in current_visible_iframes : Len(Bucket(iframe_requests, s).requests) = 1

\* request i is relevant without being a relay request: its domain is tracked
TrackedDomain(i) ==
    /\ ~IsRelay(requests[i].url)
    /\ extract_domain(requests[i].url) # ""
    /\ extract_domain(requests[i].url) \in mellowtel_domains

\* the visible iframes whose domain is that of request i
DomainMatches(i, visible) ==
    { s \in visible : extract_domain(s) = extract_domain(requests[i].url) }

\* C11: a pass appends a relevant request that is not a relay request to
\* the bucket of exactly one visible iframe of the request's domain, also
\* when several visible iframes have that domain, and to no bucket when no
\* visible iframe has it.
C11_DomainToOneBucket ==
    [][ PassStep =>
          \A i \in ev'.done : TrackedDomain(i) =>
             IF DomainMatches(i, current_visible_iframes') = {}
             THEN \A s \in Srcs : CountNew(s, i) = 0
             ELSE \E s \in DomainMatches(i, current_visible_iframes') :
                     /\ CountNew(s, i) = 1
                     /\ \A t \in Srcs \ {s} : CountNew(t, i) = 0 ]_vars

\* a pass has given a request of a tracked domain to one of the two visible
\* iframes of that domain while an iframe of another domain was never shown
C11_Witness ==
    /\ ev.op = "process_new_requests"
    /\ pc = "sleep"
    /\ \E i \in ev.done :
          /\ TrackedDomain(i)
          /\ Cardinality(DomainMatches(i, current_visible_iframes)) = 2
          /\ Cardinality({ b \in 1..Len(iframe_requests) :
                \E k \in 1..Len(iframe_requests[b].requests) :
                   iframe_requests[b].requests[k].idx = i }) = 1

\* request i is discarded by the filter of line 926
Irrelevant(i) ==
    /\ ~IsRelay(requests[i].url)
    /\ extract_domain(requests[i].url) \notin mellowtel_domains \ {""}

\* request i is relevant, but no iframe of the visible set is found for it
Unmatched(i, visible) ==
    /\ ~Irrelevant(i)
    /\ IF HasReferer(i) THEN RefererMatches(i, visible) = {}
       ELSE IF NoReferer(i) THEN visible = {}
       ELSE DomainMatches(i, visible) = {}

\* C12: a record is stored in a bucket only if the url of its request has
\* the relay marker or its domain is in mellowtel_domains when the pass
\* runs; an irrelevant or unmatched request is stored nowhere, and a pass
\* over such requests only changes nothing of the session state but
\* last_processed_request_index.
C12_OnlyRelevantStored ==
    [][ PassStep =>
          /\ \A s \in Srcs : \A k \in DOMAIN NewRecords(s) :
                \/ IsRelay(NewRecords(s)[k].url)
                \/ extract_domain(NewRecords(s)[k].url) \in mellowtel_domains
          /\ \A i \in ev'.done :
                (Irrelevant(i) \/ Unmatched(i, current_visible_iframes'))
                => \A s \in Srcs : CountNew(s, i) = 0
          /\ (\A i \in ev'.done :
                 Irrelevant(i) \/ Unmatched(i, current_visible_iframes'))
             => /\ iframe_requests' = iframe_requests
                /\ iframe_metadata' = iframe_metadata
                /\ mellowtel_domains' = mellowtel_domains
                /\ mellowtel_iframe_urls' = mellowtel_iframe_urls
                /\ pc # "tickpass" => current_visible_iframes' = current_visible_iframes
                /\ last_processed_request_index' = Len(requests) ]_vars

\* a pass over an irrelevant request has left the bucket of a visible
\* iframe as it was
C12_Witness ==
    /\ ev.op = "process_new_requests"
    /\ pc = "sleep"
    /\ ev.done # {}
    /\ \A i \in ev.done : Irrelevant(i)
    /\ last_processed_request_index = Len(requests)
    /\ current_visible_iframes # {}
    /\ SumLen(iframe_requests) = 1

\* visit_site on the monitor thread with the interception layer, in an
\* environment with faults inside the passes.  The worker thread is left to
\* the other specifications: it reads and writes the queue and the files
\* only, which no pass touches.
NextMonitor ==
    \/ Arrive
    \/ RunNext
    \/ Reset
    \/ Navigate
    \/ Snapshot
    \/ PrePass
    \/ Flush
    \/ TickPass
    \/ Sleep
    \/ ExitLoop
    \/ Dwell
    \/ FinalPass
    \/ WriteAll
    \/ SaveMeta

SpecPass == InitFaulty /\ [][NextMonitor]_vars

\* what reading each request of the step's pass did: ok, skip or abort
NoAbort(f) == \A j \in DOMAIN f : f[j] # "abort"

\* C13: when reading request i raises the tolerated RuntimeError inside a
\* pass, only i is skipped: every other request of the pass, the later ones
\* included, is classified, and last_processed_request_index is advanced
\* to the total of the pass.
C13_SkipOnlyTheFaultyIndex ==
    [][ (PassStep /\ NoAbort(ev'.faults)) =>
          /\ last_processed_request_index' = Len(requests)
          /\ ev'.faults # << >> =>
                DOMAIN ev'.faults = (last_processed_request_index + 1)..Len(requests)
          /\ \A j \in DOMAIN ev'.faults :
                /\ ev'.faults[j] = "ok" <=> j \in ev'.done
                /\ (ev'.faults[j] = "ok" /\ NoReferer(j))
                   => \A s \in current_visible_iframes' : CountNew(s, j) = 1
                /\ ev'.faults[j] = "skip" => \A s \in Srcs : CountNew(s, j) = 0 ]_vars

\* a pass has skipped a request on the tolerated fault and stored the
\* request after it
C13_Witness ==
    /\ ev.op = "process_new_requests"
    /\ pc = "sleep"
    /\ \E i \in DOMAIN ev.faults : \E j \in DOMAIN ev.faults :
          /\ i < j
          /\ ev.faults[i] = "skip"
          /\ j \in ev.done
          /\ NoReferer(j)
          /\ last_processed_request_index >= j
          /\ \E b \in 1..Len(iframe_requests) :
                \E k \in 1..Len(iframe_requests[b].requests) :
                   iframe_requests[b].requests[k].idx = j

(***************************************************************************)
(* Scheduling.  The worker is a thread of its own and the caller of        *)
(* shutdown() runs on: a step of either that stays possible is taken.      *)
(***************************************************************************)
FairQ ==
    /\ WF_vars(WorkerTask)
    /\ WF_vars(WorkerExit)
    /\ WF_vars(ShutdownSet)
    /\ WF_vars(ShutdownJoin)
    /\ WF_vars(ShutdownSentinel)
    /\ WF_vars(ShutdownThreadJoin)

\* the FileWriterQueue with callers that enqueue at any time
SpecQFair == InitQ /\ [][NextQ]_vars /\ FairQ

\* C14: a write task that fails does not stop the worker: the worker keeps
\* running with the rest of the queue, and every task enqueued after the
\* failed one (while no shutdown is under way) is processed too.
C14_FailedWriteDoesNotStop ==
    /\ [][ (Len(handled') > Len(handled) /\ ~handled'[Len(handled')])
            => /\ wpc' = "run"
               /\ write_queue' = Tail(write_queue)
               /\ unfinished' = unfinished - 1 ]_vars
    /\ \A m \in 1..MaxTasks :
          (/\ Len(RealTasks) >= m
           /\ ~shutdown_event
           /\ \E k \in 1..Len(handled) : k < m /\ ~handled[k])
          ~> (Len(handled) >= m)

\* a task has been written after the failure of an earlier one
C14_Witness ==
    /\ wpc = "run"
    /\ \E k \in DOMAIN handled : \E m \in DOMAIN handled :
          /\ k < m
          /\ ~handled[k]
          /\ handled[m]
          /\ files[RealTasks[m].filepath] # << >>

\* a caller that enqueues only before it calls shutdown(): no producer runs
\* beside the shutdown
EnqueueBeforeShutdown == pc = "start" /\ EnqueueWrite

NextDrain ==
    \/ EnqueueBeforeShutdown
    \/ CallShutdown
    \/ ShutdownSet
    \/ ShutdownJoin
    \/ ShutdownSentinel
    \/ ShutdownThreadJoin
    \/ WorkerTask
    \/ WorkerExit

SpecDrain == InitQ /\ [][NextDrain]_vars /\ FairQ

\* C15: with no producer beside it, shutdown() drains the queue: the worker
\* exits only after every task enqueued before the call was processed, the
\* worker does terminate, and shutdown() returns.
C15_ShutdownDrains ==
    /\ [](wpc = "exited" => Len(handled) = Len(RealTasks))
    /\ [](pc = "done" => Len(handled) = Len(RealTasks))
    /\ (pc = "shutdown" ~> (pc = "done" /\ wpc = "exited"))

\* shutdown() has returned after the worker processed several tasks
C15_Witness ==
    /\ pc = "done"
    /\ wpc = "exited"
    /\ Len(RealTasks) >= 2
    /\ Len(handled) = Len(RealTasks)

\* C16: a task enqueued while shutdown() is draining (the event is set, the
\* join of the queue has not returned) is still processed, and shutdown()
\* still returns.
C16_LateTaskProcessed ==
    /\ \A m \in 1..MaxTasks :
          (pc = "join" /\ Len(RealTasks) >= m) ~> (Len(handled) >= m)
    /\ (pc = "join" ~> pc = "done")

\* lines 75-83 with a write that never completes (a hung file system, a
\* blocked pipe): the task was taken from the queue, open() or f.write() does
\* not return, so neither the except nor the finally of lines 84-88 is reached
WorkerStall ==
    /\ wpc = "run"
    /\ write_queue # << >>
    /\ Dequeue(write_queue).task # Sentinel
    /\ write_queue' = Dequeue(write_queue).rest
    /\ wpc' = "writing"
    /\ UNCHANGED << dwell, post_payload_counter, post_payloads, max_wait_for_iframe, extension_activated, nav_attempt, pc, site, timeout_attempt, nsites, requests,
                    last_processed_request_index, mellowtel_iframe_urls,
                    mellowtel_domains, iframe_metadata, iframe_requests,
                    current_visible_iframes, currently_visible, disappeared_iframes,
                    elapsed, total_iframes_found, metadata_file, unfinished,
                    shutdown_event, files, interrupted, left, nclass, appended,
                    handed, enq_log, handled, observed, ev >>

NextStall == NextDrain \/ WorkerStall

\* the FileWriterQueue with no producer beside shutdown() and a worker whose
\* write may hang
SpecStall == InitQ /\ [][NextStall]_vars /\ FairQ

\* C17: the wait of shutdown() for the queue to drain is bounded: shutdown()
\* returns even when the worker never completes some write task.
C17_ShutdownReturnsDespiteStall == pc = "shutdown" ~> pc = "done"

\* a whole run in which a step of visit_site before the navigation may fail
InitNavFault ==
    InitWith(MaxVisits, [req |-> RunReq, shown |-> RunShown, faults |-> 0,
                         nav |-> RunNavFaults, wfail |-> 0, intr |-> 0, relabel |-> 0, dom |-> 0, act |-> 0, extra |-> 0])

SpecNavFault == InitNavFault /\ [][Next]_vars

\* the session state of lines 1150-1155 is empty
SessionCleared ==
    /\ mellowtel_iframe_urls = {}
    /\ mellowtel_domains = {}
    /\ iframe_metadata = EmptyMeta
    /\ iframe_requests = << >>
    /\ current_visible_iframes = {}
    /\ last_processed_request_index = 0

\* the iframe srcs that the records written by this step under the URL of
\* the current visit refer to: metadata records and network-log lines
WrittenSrcs ==
    (IF Len(metadata_file') > Len(metadata_file)
     THEN UNION { DOMAIN metadata_file'[k].records :
                    k \in { j \in Len(metadata_file) + 1 .. Len(metadata_file') :
                              metadata_file'[j].visited_site = site } }
     ELSE {})
    \cup
    UNION { { enq_log'[k].content[j].iframe_src :
                j \in { i \in DOMAIN enq_log'[k].content :
                          enq_log'[k].content[i].visited_site = site } } :
            k \in Len(enq_log) + 1 .. Len(enq_log') }

\* C18: the session state is cleared at the start of each visit, and no
\* metadata record or network-log record written under the URL of visit V
\* refers to an iframe that was not observed during visit V, on any path,
\* faults raised before the clearing step included.
C18_NothingFromEarlierVisit ==
    [][ /\ (pc = "attempt" /\ pc' = "nav") => SessionCleared'
        /\ (pc \in MonitorPcs \cup {"be_pass", "be_write", "be_save"})
             => WrittenSrcs \subseteq observed ]_vars

\* the number of records of iframe s in the metadata file under site v
RecordsOf(s, v) ==
    Cardinality({ k \in DOMAIN metadata_file :
                    /\ metadata_file[k].visited_site = v
                    /\ s \in DOMAIN metadata_file[k].records })

\* C19: when a visit has ended (normally, after an error, or after the
\* retries are exhausted) the metadata file holds exactly one record for
\* each iframe src tracked in that visit, and none for any other src.
C19_OneRecordPerTrackedIframe ==
    (pc = "start" /\ site >= 1)
        => \A s \in Srcs : RecordsOf(s, site) = IF s \in observed THEN 1 ELSE 0

\* C20: within a visit the key set of iframe_metadata only grows; an iframe
\* that disappeared keeps its record and leaves current_visible_iframes at
\* the tick that found it gone; records are removed only by the reset at the
\* start of a visit.
C20_MetadataKeysOnlyGrow ==
    [][ /\ ~(DOMAIN iframe_metadata \subseteq DOMAIN iframe_metadata')
             => (pc = "attempt" /\ pc' = "nav" /\ iframe_metadata' = EmptyMeta)
        /\ pc = "loop" /\ pc' # "loop"
             => /\ currently_visible' \subseteq DOMAIN iframe_metadata'
                /\ current_visible_iframes \ currently_visible'
                      \subseteq DOMAIN iframe_metadata'
        /\ pc = "tickpass" /\ pc' = "sleep"
             => /\ current_visible_iframes' = currently_visible
                /\ \A s \in current_visible_iframes \ currently_visible :
                      s \in DOMAIN iframe_metadata' /\ s \notin current_visible_iframes' ]_vars

\* a tick has ended with an iframe that is gone from the DOM and from the
\* visible set while its record is still there
C20_Witness ==
    /\ pc = "sleep"
    /\ \E s \in DOMAIN iframe_metadata :
          /\ s \in observed
          /\ s \notin current_visible_iframes
          /\ s \notin currently_visible

\* the steps of the monitor thread inside visit_site
MonitorThread ==
    \/ RunNext
    \/ Reset
    \/ Navigate
    \/ Snapshot
    \/ PrePass
    \/ Flush
    \/ TickPass
    \/ Sleep
    \/ ExitLoop
    \/ Dwell
    \/ FinalPass
    \/ WriteAll
    \/ SaveMeta

\* one visit whose monitoring window holds three ticks, so that an iframe can
\* appear, disappear and reappear, with an id that the page may change
InitTracker ==
    InitFor(1, [req |-> 0, shown |-> TrackShown, faults |-> 0, nav |-> 0,
                wfail |-> 0, intr |-> 0, relabel |-> TrackRelabel, dom |-> 0, act |-> 0, extra |-> 0], TrackWait)

SpecTracker == InitTracker /\ [][MonitorThread]_vars

\* the step is the DOM snapshot of a tick
SnapshotStep == pc = "loop" /\ pc' \in {"prepass", "tickpass"}

\* C21: update_iframe_metadata inserts a record with first_seen = last_seen =
\* the time of the tick for a src not yet known, and changes only last_seen
\* of a known one: first_seen, id, data_id and domain never change after the
\* insertion, also when the iframe disappears and reappears, and last_seen is
\* the time of the latest tick in which the iframe was visible.
C21_OnlyLastSeenMoves ==
    [][ /\ \A s \in DOMAIN iframe_metadata \cap DOMAIN iframe_metadata' :
              /\ iframe_metadata'[s].src = iframe_metadata[s].src
              /\ iframe_metadata'[s].id = iframe_metadata[s].id
              /\ iframe_metadata'[s].data_id = iframe_metadata[s].data_id
              /\ iframe_metadata'[s].domain = iframe_metadata[s].domain
              /\ iframe_metadata'[s].first_seen = iframe_metadata[s].first_seen
              /\ iframe_metadata'[s].last_seen # iframe_metadata[s].last_seen
                    => SnapshotStep /\ s \in currently_visible'
        /\ SnapshotStep =>
              /\ \A s \in currently_visible' :
                    /\ s \in DOMAIN iframe_metadata'
                    /\ iframe_metadata'[s].last_seen = elapsed
                    /\ s \notin DOMAIN iframe_metadata
                          => /\ iframe_metadata'[s].first_seen = elapsed
                             /\ iframe_metadata'[s].src = s
                             /\ iframe_metadata'[s].domain = extract_domain(s)
              /\ \A s \in DOMAIN iframe_metadata \ currently_visible' :
                    iframe_metadata'[s] = iframe_metadata[s] ]_vars

\* an iframe was seen at the first tick, was gone, and is back at the third
\* tick with other id attributes in the DOM than its record holds
C21_Witness ==
    /\ pc = "sleep"
    /\ \E s \in currently_visible :
          /\ observed = {s}
          /\ left.shown <= TrackShown - 2
          /\ left.relabel < TrackRelabel
          /\ iframe_metadata[s].first_seen = 0
          /\ iframe_metadata[s].last_seen = elapsed
          /\ elapsed >= 2 * iframe_poll_interval
          /\ iframe_metadata[s].id = DefaultAttrs.id

\* C22: the monitoring loop takes a DOM snapshot and runs an attribution pass
\* on every tick until the maximum wait has elapsed; finding an iframe does
\* not end the loop early.
C22_PollsUntilMaxWait ==
    [][ /\ (pc = "loop" /\ pc' # "loop")
             => IF elapsed < max_wait_for_iframe
                THEN SnapshotStep /\ ev'.op = "snapshot"
                ELSE pc' \in {"final", "dwell"} /\ ~SnapshotStep
        /\ (pc = "prepass" /\ pc' # pc) => pc' = "flush"
        /\ (pc = "flush" /\ pc' # pc) => pc' = "tickpass"
        /\ (pc = "tickpass" /\ pc' # pc)
             => pc' = "sleep" /\ ev'.op = "process_new_requests"
        /\ (pc = "sleep" /\ pc' # pc)
             => pc' = "loop" /\ elapsed' = elapsed + iframe_poll_interval ]_vars

\* the pass of the third tick has run although an iframe was found at the
\* first tick
C22_Witness ==
    /\ pc = "sleep"
    /\ ev.op = "process_new_requests"
    /\ elapsed >= 2 * iframe_poll_interval
    /\ total_iframes_found > 0
    /\ \E s \in DOMAIN iframe_metadata : iframe_metadata[s].first_seen = 0

\* the iframe and bucket state of the session
TrackerState ==
    << mellowtel_iframe_urls, mellowtel_domains, iframe_metadata, iframe_requests,
       current_visible_iframes, currently_visible, last_processed_request_index,
       total_iframes_found, observed >>

\* C23: the fallback dwell is entered exactly when no iframe was seen in the
\* whole monitoring window; during the dwell no DOM snapshot is taken and no
\* iframe or bucket state changes; the end-of-visit pass, flush and metadata
\* save follow the dwell.
C23_DwellIffNothingSeen ==
    [][ /\ (pc = "loop" /\ pc' \in {"final", "dwell"})
             => (pc' = "dwell" <=> observed = {})
        /\ pc' = "dwell" => pc \in {"loop", "dwell"}
        /\ pc = "dwell"
             => /\ UNCHANGED TrackerState
                /\ ev'.op # "snapshot"
                /\ pc' \in {"dwell", "final"}
        /\ (pc = "final" /\ pc' # pc) => pc' = "writeall"
        /\ (pc = "writeall" /\ pc' # pc)
             => pc' = "savemeta" /\ iframe_requests' = << >>
        /\ (pc = "savemeta" /\ pc' # pc)
             => Len(metadata_file') = Len(metadata_file) + 1 ]_vars

\* the dwell has ended in a visit that saw no iframe while a request was
\* intercepted
C23_Witness ==
    /\ pc = "final"
    /\ ev.op = "dwell"
    /\ observed = {}
    /\ requests # << >>

\* one visit in which the driver may fail at the iframe query or at the
\* navigation
InitDomFault ==
    InitWith(1, [req |-> RunReq, shown |-> RunShown, faults |-> 0,
                 nav |-> MaxDriverFaults, wfail |-> 0, intr |-> 0, relabel |-> 0,
                 dom |-> MaxDriverFaults, act |-> 0, extra |-> 0])

SpecDomFault == InitDomFault /\ [][NextMonitor]_vars

\* C24: a driver fault at the iframe query or at the navigation is retried
\* or propagated so that the visit is abandoned; a failed iframe query is
\* not taken for an empty DOM in which every visible iframe has disappeared.
C24_DomFaultNotEmptySnapshot ==
    [][ /\ (pc = "loop" /\ ev'.op = "snapshot" /\ ev'.src = "fault")
             => /\ current_visible_iframes \cap disappeared_iframes' = {}
                /\ current_visible_iframes # {} => pc' \in {"loop", "be_pass"}
        /\ (pc = "nav" /\ ev'.op = "navigate" /\ ev'.src # "ok")
             => pc' \in {"nav", "attempt", "be_pass"} ]_vars

\* one visit in which navigations and driver restarts may fail often enough
\* to exhaust the retries; the monitor thread keeps running
InitRetry ==
    InitWith(1, [req |-> RunReq, shown |-> RunShown, faults |-> 0,
                 nav |-> RetryFaults, wfail |-> 0, intr |-> 0, relabel |-> 0,
                 dom |-> 0, act |-> 0, extra |-> 0])

SpecRetry == InitRetry /\ [][NextMonitor]_vars /\ WF_vars(MonitorThread)

\* the retry counters of visit_site stay within their bounds
RetryBounds ==
    /\ nav_attempt <= max_retries - 1
    /\ timeout_attempt <= max_timeout_retries

\* a fault at the navigation that is neither the transient fault nor a
\* timeout is not retried
OtherFaultNotRetried ==
    [][ (pc = "nav" /\ ev'.op = "navigate" /\ ev'.src = "error")
          => pc' = "be_pass" ]_vars

\* visit_site returns
VisitTerminates == (pc = "attempt") ~> (pc = "start")

\* C25: visit_site always terminates: at most 3 navigations per attempt for
\* the transient fault, at most 3 attempts for timeouts, no retry for any
\* other fault, and a visit that is abandoned ends with the best-effort pass,
\* flush and metadata save.
C25_BoundedRetriesThenBestEffort ==
    /\ []RetryBounds
    /\ OtherFaultNotRetried
    /\ VisitTerminates
    /\ [][ (pc # "start" /\ pc' = "start")
            => /\ pc \in {"savemeta", "be_save"}
               /\ ev'.op = "save_iframe_metadata" ]_vars

\* a whole run in which navigations, driver restarts and the activation of
\* the extension may fail
InitActivation ==
    InitWith(MaxVisits, [req |-> 0, shown |-> RunShown, faults |-> 0,
                         nav |-> RunNavFaults, wfail |-> 0, intr |-> 0, relabel |-> 0,
                         dom |-> 0, act |-> MaxActFaults, extra |-> 0])

\* the monitor thread up to the finally of run_experiment
NextRun == MonitorThread \/ RunEnd

SpecActivation == InitActivation /\ [][NextRun]_vars

\* the step is a fault inside visit_site
VisitFault ==
    \/ ev'.op = "navigate" /\ ev'.src \in {"transient", "timeout", "error"}
    \/ ev'.op = "reset" /\ pc = "attempt" /\ pc' # "nav"
    \/ ev'.op = "sys.exit"

InitPayload ==
    InitWith(MaxVisits, [req |-> 0, shown |-> PayloadShown, faults |-> 0, nav |-> 0,
                         wfail |-> 0, intr |-> 0, relabel |-> 0, dom |-> 0, act |-> 0,
                         extra |-> PayloadReq])

SpecPayload == InitPayload /\ [][NextMonitor]_vars

\* the gate of the payload extractor: a POST to the relay host whose
\* content-type contains "text" in any letter case
PassesGate(request) ==
    /\ request.method = "POST"
    /\ IsRelay(request.url)
    /\ request.content_type \in {"text/plain", "Text/HTML"}

\* the request carries body bytes
HasBody(request) == request.body # NoBody /\ request.body # ""

\* a gated request whose body has 0 bytes
ZeroBytePost(request) == PassesGate(request) /\ request.body = ""

\* C28: a POST to the relay host with a text content-type and a 0-byte body
\* causes no payload file to be written and leaves post_payload_counter
\* unchanged.
C28_EmptyBodyWritesNothing ==
    [][ (PassStep /\ ev'.done # {} /\ \A i \in ev'.done : ZeroBytePost(requests[i]))
          => /\ post_payload_counter' = post_payload_counter
             /\ post_payloads' = post_payloads ]_vars

\* post_payload_counter never decreases, not even from one visit to the next
CounterNeverDecreases == [][post_payload_counter' >= post_payload_counter]_vars

\* no two payload files carry the same counter value
DistinctCounters ==
    \A j, k \in DOMAIN post_payloads :
        post_payloads[j].counter = post_payloads[k].counter => j = k

\* the counter moves by one for every request a pass read that passes the
\* gate and whose body is not None, and only then
CounterCountsNotNone ==
    [][ IF PassStep
        THEN post_payload_counter' = post_payload_counter
               + Cardinality({ i \in ev'.done : /\ PassesGate(requests[i])
                                                /\ requests[i].body # NoBody })
        ELSE post_payload_counter' = post_payload_counter ]_vars

\* C29: post_payload_counter never decreases and is never reset across
\* visits; it moves by exactly one exactly when a request passes the gate and
\* has a body, and is unchanged otherwise; every payload file written in a
\* run carries a distinct counter value.
C29_CounterCountsPayloads ==
    /\ CounterNeverDecreases
    /\ []DistinctCounters
    /\ [][ IF PassStep
            THEN post_payload_counter' = post_payload_counter
                   + Cardinality({ i \in ev'.done : /\ PassesGate(requests[i])
                                                    /\ HasBody(requests[i]) })
            ELSE post_payload_counter' = post_payload_counter ]_vars

\* two payload files were written, in two visits
PayloadsInTwoVisits ==
    /\ Len(post_payloads) = 2
    /\ post_payloads[1].visited_site = 1
    /\ post_payloads[2].visited_site = 2

\* the spellings of the Referer header name in the model
RefererNames == {"Referer", "referer", "REFERER"}

\* the Referer of the headers, whatever the letter case of its name
AnyCaseReferer(headers) ==
    IF DOMAIN headers \cap RefererNames # {}
    THEN headers[CHOOSE h \in DOMAIN headers \cap RefererNames : TRUE]
    ELSE ""

\* request i goes to the relay host and carries a Referer under some spelling
CarriesReferer(i) == IsRelay(requests[i].url) /\ AnyCaseReferer(requests[i].headers) # ""

\* C30: the Referer lookup for a relay-host request is case-insensitive: a
\* request whose Referer header name is spelled in any letter case is given
\* to at most one bucket, that of a visible iframe of the Referer's domain,
\* and is never given to every visible iframe as a request without Referer.
C30_RefererAnyCase ==
    [][ PassStep =>
          \A i \in ev'.done : CarriesReferer(i) =>
             /\ \A s \in Srcs : CountNew(s, i) > 0 =>
                   /\ CountNew(s, i) = 1
                   /\ extract_domain(s) = extract_domain(AnyCaseReferer(requests[i].headers))
             /\ Cardinality({ s \in Srcs : CountNew(s, i) > 0 }) <= 1 ]_vars

\* the session state of the monitor thread
Session ==
    << iframe_requests, iframe_metadata, current_visible_iframes, currently_visible,
       last_processed_request_index, mellowtel_iframe_urls, mellowtel_domains >>

\* the step is taken by the worker thread of FileWriterQueue
WorkerStep == wpc = "run" /\ (handled' # handled \/ wpc' # wpc)

\* C27: the write queue is all the monitor thread and the worker share: a
\* step of the worker leaves the session state (buckets, metadata, visible
\* set, index) as it was, and network_logs.jsonl changes only in a step of
\* the worker, by the write of the task at the head of the queue; the
\* monitor thread only puts tasks on the queue.
C27_OnlyQueueShared ==
    [][ /\ WorkerStep => /\ Session' = Session
                         /\ pc' = pc
                         /\ requests' = requests
        /\ files' # files
             => /\ WorkerStep
                /\ files' = [files EXCEPT ![Head(write_queue).filepath] =
                                WriteFile(@, Head(write_queue).content,
                                          Head(write_queue).mode)]
        /\ pc' # pc => /\ files' = files
                       /\ handled' = handled
                       /\ \E items \in {SubSeq(write_queue', Len(write_queue) + 1,
                                                Len(write_queue'))} :
                             write_queue' = write_queue \o items ]_vars

\* the worker has written network_logs.jsonl while the monitor thread is
\* inside the monitoring loop with iframes tracked and buckets filled
C27_Witness ==
    /\ files[output_file] # << >>
    /\ pc \in {"loop", "tickpass", "sleep"}
    /\ iframe_requests # << >>
    /\ current_visible_iframes # {}
    /\ ev.op # "init"

\* C31: no request index is skipped: in a run without faults a pass examines
\* exactly the indices from the old last_processed_request_index up to the
\* length the list had when the pass began and sets the index to that
\* length, so that a request appended while the pass is running stays
\* beyond the index and is examined by the next pass.
C31_NoIndexSkipped ==
    [][ PassStep =>
          /\ ev'.done = (last_processed_request_index + 1)..Len(requests)
          /\ last_processed_request_index' = Len(requests)
          /\ \A k \in (Len(requests) + 1)..Len(requests') :
                /\ k > last_processed_request_index'
                /\ nclass'[k] = 0 ]_vars

\* a request that was appended while a pass was running has been examined,
\* once, by the pass after it
C31_Witness ==
    /\ ev.op = "process_new_requests"
    /\ Len(requests) = 2
    /\ ev.done = {2}
    /\ last_processed_request_index = 2
    /\ nclass = << 1, 1 >>

\* C32: a pending relevant request whose domain is that of an iframe of the
\* tick's DOM snapshot is appended to the bucket of such an iframe by the
\* pass of that tick that examines it, also in a tick in which that iframe is
\* newly visible while another iframe has just disappeared.
C32_AttributedInTheTick ==
    [][ (PassStep /\ pc \in {"prepass", "tickpass"}) =>
          \A i \in ev'.done :
             (TrackedDomain(i) /\ DomainMatches(i, currently_visible) # {})
                => \E s \in DomainMatches(i, currently_visible) : CountNew(s, i) = 1 ]_vars

\* a whole run in which navigations and driver restarts may fail and the
\* monitoring window of each visit holds a single tick
InitRunFaults ==
    InitFor(MaxVisits, [req |-> RunReq, shown |-> RunShown, faults |-> 0,
                        nav |-> RunNavFaults, wfail |-> 0, intr |-> 0, relabel |-> 0,
                        dom |-> 0, act |-> 0, extra |-> 0], ShortWait)

\* the interception layer and the monitor thread inside visit_site when the
\* window holds a single tick: no iframe is seen to disappear, so the pass
\* and the flush of lines 1272-1280 do not run
NextShortWindow ==
    \/ Arrive
    \/ RunNext
    \/ Reset
    \/ Navigate
    \/ Snapshot
    \/ TickPass
    \/ Sleep
    \/ ExitLoop
    \/ Dwell
    \/ FinalPass
    \/ WriteAll
    \/ SaveMeta

SpecRunFaults == InitRunFaults /\ [][NextShortWindow]_vars

C35_NoRequestOfEarlierVisit ==
    [][ PassStep =>
          /\ \A i \in ev'.done :
                requests[i].at \in 1..(site - 1) => \A s \in Srcs : CountNew(s, i) = 0
          /\ Len(post_payloads') - Len(post_payloads)
                <= Cardinality({ i \in ev'.done : requests[i].at \notin 1..(site - 1) }) ]_vars

\* C36: every bucket of iframe_requests holds at least one record, and at the
\* end of every monitoring tick the keys of the buckets are iframes of
\* current_visible_iframes.
C36_BucketsOfVisibleIframes ==
    /\ \A k \in DOMAIN iframe_requests : Len(iframe_requests[k].requests) >= 1
    /\ pc = "sleep" => Keys(iframe_requests) \subseteq current_visible_iframes

\* a tick has ended with a bucket filled for a visible iframe after the
\* bucket of an iframe that disappeared was flushed
C36_Witness ==
    /\ pc = "sleep"
    /\ iframe_requests # << >>
    /\ handed > 0
    /\ \E s \in DOMAIN iframe_metadata : s \notin current_visible_iframes

\* the domains of the srcs in S that are not empty
DomainsOf(S) == { extract_domain(s) : s \in S } \ {""}

\* C37: at the end of every monitoring tick current_visible_iframes is a
\* subset of the keys of iframe_metadata, mellowtel_iframe_urls equals those
\* keys and mellowtel_domains equals the non-empty domains of those keys; a
\* tracked domain is never removed within a visit, not even after its iframe
\* has disappeared.
C37_TrackerSetsAgree ==
    /\ [](pc = "sleep" =>
            /\ current_visible_iframes \subseteq DOMAIN iframe_metadata
            /\ mellowtel_iframe_urls = DOMAIN iframe_metadata
            /\ mellowtel_domains = DomainsOf(DOMAIN iframe_metadata))
    /\ [][ pc # "attempt" => mellowtel_domains \subseteq mellowtel_domains' ]_vars

\* a tick has ended with two domains tracked while the iframe of one of
\* them is no longer visible
C37_Witness ==
    /\ pc = "sleep"
    /\ Cardinality(mellowtel_domains) = 2
    /\ \E s \in DOMAIN iframe_metadata :
          /\ s \notin current_visible_iframes
          /\ \A v \in current_visible_iframes : extract_domain(v) # extract_domain(s)

(***************************************************************************)
(* The fallback dwell loop of lines 1304-1314, run on its own for every    *)
(* DWELL_TIME and poll interval of the bounds.                             *)
(***************************************************************************)
\* every variable but dwell
Rest ==
    << post_payload_counter, post_payloads, max_wait_for_iframe,
       extension_activated, nav_attempt, pc, site, timeout_attempt,
       nsites, requests, last_processed_request_index,
       mellowtel_iframe_urls, mellowtel_domains, iframe_metadata,
       iframe_requests, current_visible_iframes, currently_visible,
       disappeared_iframes, elapsed, total_iframes_found, metadata_file,
       write_queue, unfinished, shutdown_event, wpc, files, interrupted,
       left, nclass, appended, handed, enq_log, handled, observed, ev >>

\* a faulty variant of sleep_time, for sensitivity: the last sleep is not
\* shortened
sleep_timeWhole(interval, remaining) == interval

\* line 1312: min(self.iframe_poll_interval, self.dwell_time - wait_elapsed)
sleep_time(interval, remaining) == IF interval <= remaining THEN interval ELSE remaining

\* one iteration of the while loop of line 1306
DwellSleep ==
    /\ dwell.at = "loop"
    /\ dwell.wait_elapsed < dwell.dwell_time
    /\ dwell' = [dwell EXCEPT
                   !.wait_elapsed = @ + sleep_time(dwell.interval,
                                                   dwell.dwell_time - dwell.wait_elapsed),
                   !.sleeps = @ + 1]
    /\ UNCHANGED Rest

\* the condition of line 1306 is false: the loop is left
DwellDone ==
    /\ dwell.at = "loop"
    /\ ~(dwell.wait_elapsed < dwell.dwell_time)
    /\ dwell' = [dwell EXCEPT !.at = "done"]
    /\ UNCHANGED Rest

InitDwell ==
    /\ InitState(1, [req |-> 0, shown |-> 0, faults |-> 0, nav |-> 0, wfail |-> 0,
                     intr |-> 0, relabel |-> 0, dom |-> 0, act |-> 0, extra |-> 0], MaxWait)
    /\ \E d \in 0..MaxDwell, i \in 1..MaxInterval :
          dwell = [dwell_time |-> d, interval |-> i, wait_elapsed |-> 0, sleeps |-> 0,
                   at |-> "loop"]

NextDwell == DwellSleep \/ DwellDone

\* the monitor thread is not stopped inside the loop: time.sleep returns
SpecDwell == InitDwell /\ [][NextDwell]_vars /\ WF_vars(NextDwell)

\* C38: for every dwell_time >= 0 and poll interval > 0 the fallback dwell
\* loop terminates with the accumulated wait equal to dwell_time: no sleep
\* is longer than the interval or than what remains, the wait never exceeds
\* dwell_time, and with dwell_time 0 the loop body does not run at all.
C38_DwellWaitsExactly ==
    /\ <>(dwell.at = "done")
    /\ [](dwell.wait_elapsed <= dwell.dwell_time)
    /\ [](dwell.at = "done" => /\ dwell.wait_elapsed = dwell.dwell_time
                               /\ dwell.dwell_time = 0 => dwell.sleeps = 0)
    /\ [][ dwell'.sleeps = dwell.sleeps + 1
             => /\ dwell'.wait_elapsed - dwell.wait_elapsed \in 1..dwell.interval
                /\ dwell'.wait_elapsed - dwell.wait_elapsed
                      <= dwell.dwell_time - dwell.wait_elapsed ]_vars

\* a dwell of 5 seconds with a poll interval of 2 has ended after three
\* sleeps, the last of them shortened to one second
C38_Witness ==
    /\ dwell.at = "done"
    /\ dwell.dwell_time = 5
    /\ dwell.interval = 2
    /\ dwell.sleeps = 3
    /\ dwell.wait_elapsed = 5

\* the write tasks still waiting in the queue
Waiting == SelectSeq(write_queue, LAMBDA t : t # Sentinel)

\* C39: the worker marks every dequeued write task as done exactly once,
\* after a successful and after a failed write alike, and never marks the
\* None of shutdown(); so the unfinished count of the queue is the number of
\* items put minus the number of tasks handled (before the None is put: the
\* write tasks enqueued minus those handled), and once the queue is empty
\* the join of shutdown() finds no unfinished task, failed writes or not.
C39_EveryTaskMarkedOnce ==
    /\ [][ Len(write_queue') < Len(write_queue)
            => IF Head(write_queue) = Sentinel
               THEN unfinished' = unfinished /\ handled' = handled
               ELSE /\ unfinished' = unfinished - 1
                    /\ Len(handled') = Len(handled) + 1 ]_vars
    /\ [](Len(handled) + Len(Waiting) = Len(RealTasks))
    /\ [](unfinished = Len(enq_log) - Len(handled))
    /\ [](pc \in {"start", "shutdown", "join", "sentinel"}
            => unfinished = Len(RealTasks) - Len(handled))
    /\ [](pc = "join" /\ write_queue = << >> => unfinished = 0)

\* shutdown() has returned after a failed write and a later successful one;
\* the worker took the None and left it unmarked
C39_Witness ==
    /\ pc = "done"
    /\ wpc = "exited"
    /\ write_queue = << >>
    /\ Len(enq_log) = Len(RealTasks) + 1
    /\ unfinished = 1
    /\ Len(handled) = Len(RealTasks)
    /\ \E k \in DOMAIN handled : \E m \in DOMAIN handled : k < m /\ ~handled[k] /\ handled[m]

(***************************************************************************)
(* A run over one site with its worker thread, under fair scheduling, in   *)
(* which navigations and driver restarts may fail: the visit ends after    *)
(* monitoring, after a timed-out navigation or after exhausted retries,    *)
(* and run_experiment shuts the queue down.                                *)
(***************************************************************************)
InitDelivery ==
    InitWith(1, [req |-> RunReq, shown |-> RunShown, faults |-> 0,
                         nav |-> RunNavFaults, wfail |-> 0, intr |-> 0, relabel |-> 0,
                         dom |-> 0, act |-> 0, extra |-> 0])

\* the monitor thread runs on from statement to statement, and so do the
\* worker and shutdown(); the interception layer owes no request
FairRun == WF_vars(MonitorThread \/ RunEnd) /\ FairQ

SpecDelivery == InitDelivery /\ [][Next]_vars /\ FairRun

\* the lines of the buckets bs, bucket after bucket
RECURSIVE Buffered(_)
Buffered(bs) == IF bs = << >> THEN << >> ELSE Content(Head(bs)) \o Buffered(Tail(bs))

\* the lines of the write tasks waiting in the queue q
RECURSIVE Queued(_)
Queued(q) == IF q = << >> THEN << >> ELSE Head(q).content \o Queued(Tail(q))

\* every line the run holds: written, waiting in the queue, or in a bucket
LinesHeld(f, q, bs) == f[output_file] \o Queued(q) \o Buffered(bs)

Copies(s, x) == Cardinality({ k \in DOMAIN s : s[k] = x })

\* C33: with no write failure and a fairly scheduled worker, every record
\* appended to a bucket during a visit that no interrupt ends is in the
\* network_logs file exactly once when shutdown() returns.  A pass adds to
\* the lines held exactly the records it appends; every other step only
\* moves lines (bucket to write task, write task to file) and neither drops
\* nor copies one; when shutdown() has returned no line is left in a bucket
\* or in the queue, and every write task was written.
C33_AppendedRecordsWrittenOnce ==
    /\ [][ LET old == LinesHeld(files, write_queue, iframe_requests)
               new == LinesHeld(files', write_queue', iframe_requests')
               all == { old[k] : k \in DOMAIN old } \cup { new[k] : k \in DOMAIN new }
           IN  IF PassStep
               THEN /\ Len(new) - Len(old) = appended' - appended
                    /\ \A x \in all : Copies(new, x) >= Copies(old, x)
               ELSE \A x \in all : Copies(new, x) = Copies(old, x) ]_vars
    /\ [](pc = "done" => /\ iframe_requests = << >>
                         /\ Queued(write_queue) = << >>
                         /\ \A k \in DOMAIN handled : handled[k])

\* shutdown() has returned after a visit with a failed navigation; the one
\* record appended to a bucket went into one write task
\* and is the one line of the file
C33_Witness ==
    /\ pc = "done"
    /\ wpc = "exited"
    /\ left.nav < RunNavFaults
    /\ Len(RealTasks) = 1
    /\ Len(RealTasks[1].content) = 1
    /\ files[output_file] = RealTasks[1].content
    /\ handled = << TRUE >>
====
